---------------------------- MODULE Spec2Model ----------------------------
(***************************************************************************)
(* A model of the pawshell (PetCLI) session engine: the pet state with its *)
(* mood arithmetic, the input handler with its control commands and the    *)
(* backend fallback, the scrollback buffer, and the event loop that drives *)
(* them.                                                                   *)
(*                                                                         *)
(* Text is modelled as a sequence of one-character strings, so that trim,  *)
(* starts_with, to_lowercase, contains and split are computed as the code  *)
(* computes them.  A character outside ASCII is written "U+<code point>"   *)
(* and counts as one character.                                            *)
(*                                                                         *)
(* An f32 is modelled by the integer n with value n * 2^-27: every f32 in  *)
(* [2^-4, 16) is such a multiple, and the sums and differences the code    *)
(* forms are rounded to 24 significant bits, ties to even, as IEEE-754     *)
(* single precision rounds them.                                           *)
(***************************************************************************)
EXTENDS Integers, Sequences, FiniteSets, TLC

(***************************************************************************)
(* Bounds of the model.                                                    *)
(***************************************************************************)
\* The user presses Enter on a non-empty line at most MaxEnters times.
MaxEnters == 1

\* The clock advances at most MaxNow half-hours past the start of the session.
MaxNow == 2

\* The hours of silence over which the decay is compared.
DecayHours == 12

\* The lines entered in the session of several turns.
SessionTurns == 2

\* The turns of the session that fills the context of the backend.
ContextTurns == 6

\* The exchanges of the stored records that fill the scrollback: one that loads
\* to one line short of the cap, and one that a further turn brings to 120.
NearCapExchanges == 49

LoadedExchanges == 119

(***************************************************************************)
(* Text helpers (Rust str methods).                                        *)
(***************************************************************************)
IsWhitespace(c) == c \in {" ", "\t", "\n", "\r"}

RECURSIVE trim_start(_)
trim_start(s) ==
    IF s # << >> /\ IsWhitespace(Head(s)) THEN trim_start(Tail(s)) ELSE s

RECURSIVE trim_end(_)
trim_end(s) ==
    IF s # << >> /\ IsWhitespace(s[Len(s)])
    THEN trim_end(SubSeq(s, 1, Len(s) - 1))
    ELSE s

trim(s) == trim_end(trim_start(s))

starts_with(s, p) == Len(s) >= Len(p) /\ SubSeq(s, 1, Len(p)) = p

\* strip_prefix: the text after p (the callers test starts_with first).
strip_prefix(s, p) == SubSeq(s, Len(p) + 1, Len(s))

contains(s, p) ==
    \E i \in 1..(Len(s) - Len(p) + 1) : SubSeq(s, i, i + Len(p) - 1) = p

UpperLetters ==
    << "A", "B", "C", "D", "E", "F", "G", "H", "I", "J", "K", "L", "M",
       "N", "O", "P", "Q", "R", "S", "T", "U", "V", "W", "X", "Y", "Z" >>

LowerLetters ==
    << "a", "b", "c", "d", "e", "f", "g", "h", "i", "j", "k", "l", "m",
       "n", "o", "p", "q", "r", "s", "t", "u", "v", "w", "x", "y", "z" >>

to_lowercase_char(c) ==
    IF \E i \in 1..Len(UpperLetters) : UpperLetters[i] = c
    THEN LowerLetters[CHOOSE i \in 1..Len(UpperLetters) : UpperLetters[i] = c]
    ELSE c

to_lowercase(s) == [i \in 1..Len(s) |-> to_lowercase_char(s[i])]

\* Number of occurrences of the character c in s.
CountChar(s, c) == Cardinality({i \in 1..Len(s) : s[i] = c})

\* s.split(c).count()
split_count(s, c) == CountChar(s, c) + 1

\* The pieces of s.split(c), in order (an empty s gives one empty piece).
RECURSIVE split(_, _)
split(s, c) ==
    IF \E i \in 1..Len(s) : s[i] = c
    THEN LET k == CHOOSE i \in 1..Len(s) :
                    s[i] = c /\ \A j \in 1..(i - 1) : s[j] # c
         IN  << SubSeq(s, 1, k - 1) >> \o split(SubSeq(s, k + 1, Len(s)), c)
    ELSE << s >>

\* s.splitn(2, c): at most two pieces, cut at the first c.
splitn2(s, c) ==
    IF \E i \in 1..Len(s) : s[i] = c
    THEN LET k == CHOOSE i \in 1..Len(s) :
                    s[i] = c /\ \A j \in 1..(i - 1) : s[j] # c
         IN  << SubSeq(s, 1, k - 1), SubSeq(s, k + 1, Len(s)) >>
    ELSE << s >>

\* items.join(sep)
RECURSIVE join(_, _)
join(items, sep) ==
    IF items = << >> THEN << >>
    ELSE IF Len(items) = 1 THEN items[1]
    ELSE items[1] \o sep \o join(Tail(items), sep)

\* Decimal digits of a natural number (format!("{}", n)).
DigitChars == << "0", "1", "2", "3", "4", "5", "6", "7", "8", "9" >>

RECURSIVE Decimal(_)
Decimal(n) ==
    IF n < 10 THEN << DigitChars[n + 1] >>
    ELSE Decimal(n \div 10) \o << DigitChars[(n % 10) + 1] >>

\* Two-digit, zero-padded decimal (the %H, %M, %S, %m, %d fields of a timestamp).
Decimal2(n) == IF n < 10 THEN << "0" >> \o Decimal(n) ELSE Decimal(n)

(***************************************************************************)
(* The string literals of the source.                                      *)
(***************************************************************************)
WelcomeText ==
    << "W", "e", "l", "c", "o", "m", "e", " ", "b", "a", "c", "k", "!", " ", "T", "y", "p",
       "e", " ", "y", "o", "u", "r", " ", "m", "e", "s", "s", "a", "g", "e", " ", "a", "n",
       "d", " ", "p", "r", "e", "s", "s", " ", "E", "n", "t", "e", "r", " ", "t", "o", " ",
       "c", "h", "a", "t", "." >>

YouPrefix ==
    << "Y", "o", "u", ":", " " >>

GoodbyeText ==
    << "G", "o", "o", "d", "b", "y", "e", "!", " ", "T", "a", "k", "e", " ", "c", "a", "r",
       "e", "!", " ", "U+1F44B" >>

ClearedText ==
    << "C", "h", "a", "t", " ", "w", "i", "n", "d", "o", "w", " ", "c", "l", "e", "a", "r",
       "e", "d", "." >>

PurgedText ==
    << "C", "h", "a", "t", " ", "h", "i", "s", "t", "o", "r", "y", " ", "h", "a", "s", " ",
       "b", "e", "e", "n", " ", "p", "u", "r", "g", "e", "d", " ", "f", "r", "o", "m", " ",
       "d", "i", "s", "k", "." >>

HelpText ==
    << "A", "v", "a", "i", "l", "a", "b", "l", "e", " ", "C", "o", "m", "m", "a", "n", "d",
       "s", ":", "\n", "/", "s", "t", "a", "t", "s", " ", "-", " ", "D", "i", "s", "p", "l",
       "a", "y", " ", "c", "u", "r", "r", "e", "n", "t", " ", "p", "e", "t", " ", "s", "t",
       "a", "t", "i", "s", "t", "i", "c", "s", "\n", "/", "c", "l", "e", "a", "r", " ", "-",
       " ", "C", "l", "e", "a", "r", " ", "c", "h", "a", "t", " ", "w", "i", "n", "d", "o",
       "w", "\n", "/", "p", "u", "r", "g", "e", " ", "-", " ", "R", "e", "m", "o", "v", "e",
       " ", "a", "l", "l", " ", "c", "h", "a", "t", " ", "h", "i", "s", "t", "o", "r", "y",
       "\n", "/", "h", "e", "l", "p", " ", " ", "-", " ", "S", "h", "o", "w", " ", "t", "h",
       "i", "s", " ", "h", "e", "l", "p", " ", "m", "e", "s", "s", "a", "g", "e", "\n", "/",
       "e", "x", "i", "t", " ", " ", "-", " ", "E", "x", "i", "t", " ", "t", "h", "e", " ",
       "a", "p", "p", "l", "i", "c", "a", "t", "i", "o", "n" >>

TreatReply ==
    << "*", "p", "u", "r", "r", "s", " ", "h", "a", "p", "p", "i", "l", "y", "*", " ", "T",
       "h", "a", "n", "k", " ", "y", "o", "u", " ", "f", "o", "r", " ", "t", "h", "e", " ",
       "t", "r", "e", "a", "t", "!", " ", "U+1F60A" >>

PlayReply ==
    << "*", "b", "o", "u", "n", "c", "e", "s", " ", "a", "r", "o", "u", "n", "d", " ", "e",
       "x", "c", "i", "t", "e", "d", "l", "y", "*", " ", "I", " ", "l", "o", "v", "e", " ",
       "t", "o", " ", "p", "l", "a", "y", "!", " ", "U+1F431" >>

ContentReply ==
    << "*", "p", "u", "r", "r", "s", " ", "c", "o", "n", "t", "e", "n", "t", "e", "d", "l",
       "y", "*", " ", "U+1F60A" >>

CuriousReply ==
    << "*", "l", "o", "o", "k", "s", " ", "a", "t", " ", "y", "o", "u", " ", "c", "u", "r",
       "i", "o", "u", "s", "l", "y", "*", " ", "M", "e", "o", "w", "?" >>

DistantReply ==
    << "*", "s", "e", "e", "m", "s", " ", "a", " ", "b", "i", "t", " ", "d", "i", "s", "t",
       "a", "n", "t", "*", " ", ".", ".", "." >>

ConfusedReply ==
    << "*", "m", "e", "o", "w", "s", " ", "c", "o", "n", "f", "u", "s", "e", "d", "l", "y",
       "*", " ", "S", "o", "m", "e", "t", "h", "i", "n", "g", " ", "w", "e", "n", "t", " ",
       "w", "r", "o", "n", "g", " ", "w", "i", "t", "h", " ", "m", "y", " ", "r", "e", "s",
       "p", "o", "n", "s", "e", ".", ".", "." >>

StatsHead ==
    << "C", "u", "r", "r", "e", "n", "t", " ", "S", "t", "a", "t", "s", ":", "\n", "M", "o",
       "o", "d", ":", " " >>

StatsMid ==
    << "%", "\n", "L", "a", "s", "t", " ", "I", "n", "t", "e", "r", "a", "c", "t", "i", "o",
       "n", ":", " " >>

StatsTail ==
    << "\n", "C", "h", "a", "t", " ", "H", "i", "s", "t", "o", "r", "y", ":", " " >>

StatsEnd ==
    << " ", "m", "e", "s", "s", "a", "g", "e", "s" >>

CmdExit ==
    << "/", "e", "x", "i", "t" >>

CmdStats ==
    << "/", "s", "t", "a", "t", "s" >>

CmdClear ==
    << "/", "c", "l", "e", "a", "r" >>

CmdPurge ==
    << "/", "p", "u", "r", "g", "e" >>

CmdHelp ==
    << "/", "h", "e", "l", "p" >>

TreatWord ==
    << "t", "r", "e", "a", "t" >>

PlayWord ==
    << "p", "l", "a", "y" >>

OpenAIHead ==
    << "R", "e", "c", "e", "n", "t", " ", "c", "o", "m", "m", "a", "n", "d", "s", " ", "I",
       "'", "v", "e", " ", "s", "e", "e", "n", " ", "y", "o", "u", " ", "u", "s", "e", ":",
       "\n" >>

OpenAIMid ==
    << "\n", "\n", "U", "s", "e", "r", " ", "m", "e", "s", "s", "a", "g", "e", ":", " " >>

OllamaUser ==
    << "U", "s", "e", "r", ":", " " >>

OllamaAssistant ==
    << "\n", "A", "s", "s", "i", "s", "t", "a", "n", "t", ":", " " >>

OllamaSep ==
    << "\n", "\n" >>

OllamaCommands ==
    << "R", "e", "c", "e", "n", "t", " ", "c", "o", "m", "m", "a", "n", "d", "s", ":", "\n" >>

OllamaCurrent ==
    << "C", "u", "r", "r", "e", "n", "t", " ", "u", "s", "e", "r", " ", "m", "e", "s", "s",
       "a", "g", "e", ":", " " >>

DefaultName ==
    << "W", "h", "i", "s", "k", "e", "r", "s" >>

UserTag ==
    << "u", "s", "e", "r", ":" >>

AssistantTag ==
    << "a", "s", "s", "i", "s", "t", "a", "n", "t", ":" >>

(***************************************************************************)
(* f32 arithmetic.  The integer n stands for the f32 n * 2^-27.            *)
(***************************************************************************)
\* The f32 literals of the source, in units of 2^-27.
F32_0_1 == 13421773

F32_0_15 == 20132660

F32_0_2 == 26843546

F32_0_4 == 53687092

F32_0_8 == 107374184

F32_1_0 == 134217728

\* 2^24: an f32 keeps 24 significant bits.
F32Significand == 2 ^ 24

Abs(n) == IF n < 0 THEN -n ELSE n

\* The weight of the last kept bit of a magnitude a: 1 when a fits in 24 bits.
RECURSIVE Quantum(_)
Quantum(a) == IF a < F32Significand THEN 1 ELSE 2 * Quantum(a \div 2)

\* a / q rounded to the nearest integer, ties to the even one.
RoundTiesEven(a, q) ==
    LET d == a \div q
        r == a % q
    IN  IF 2 * r < q THEN d
        ELSE IF 2 * r > q THEN d + 1
        ELSE IF d % 2 = 0 THEN d ELSE d + 1

\* The f32 nearest to the exact value n.
F32Round(n) ==
    LET a == Abs(n)
        q == Quantum(a)
        m == q * RoundTiesEven(a, q)
    IN  IF n < 0 THEN -m ELSE m

F32Add(a, b) == F32Round(a + b)

F32Sub(a, b) == F32Round(a - b)

\* (h as f32) * b for a whole number h small enough to be an exact f32.
F32MulInt(h, b) == F32Round(h * b)

\* f32::min and f32::max on numbers (no NaN arises from the sums above).
F32Min(a, b) == IF a < b THEN a ELSE b

F32Max(a, b) == IF a > b THEN a ELSE b

\* format!("{:.0}", mood * 100.0): the product is rounded to an f32, then the
\* f32 is printed with no fraction digits, ties to even.  The product is formed
\* on the 24-bit significand m of mood = m * q to stay within TLC's integers.
PercentOf(mood) ==
    LET q == Quantum(mood)
        m == mood \div q
        p == F32Round(m * 100)
    IN  RoundTiesEven(p, F32_1_0 \div q)

(***************************************************************************)
(* Time.  The clock counts steps of 1/StepsPerHour hour from the start of  *)
(* the session; chrono's num_hours() keeps the whole hours of a duration.  *)
(***************************************************************************)
StepsPerHour == 2

\* Duration::num_hours(): whole hours, truncated toward zero.
num_hours(d) == IF d >= 0 THEN d \div StepsPerHour ELSE -((-d) \div StepsPerHour)

\* DateTime::format("%Y-%m-%d %H:%M:%S UTC"), the session starting at
\* 2024-01-01 00:00:00 UTC.
format_time(t) ==
    << "2", "0", "2", "4", "-", "0", "1", "-", "0", "1", " " >>
    \o Decimal2(t \div StepsPerHour) \o << ":" >>
    \o Decimal2((60 \div StepsPerHour) * (t % StepsPerHour))
    \o << ":", "0", "0", " ", "U", "T", "C" >>

(***************************************************************************)
(* AppUI (ui.rs): the input line, the scrollback buffer and its cursor.    *)
(***************************************************************************)
MAX_MESSAGES == 100

\* AppUI::new.  The scroll_state field is left out: it is written with the
\* value of scroll_offset wherever scroll_offset is scrolled, and never read.
AppUI_new ==
    [ input         |-> << >>,
      messages      |-> << WelcomeText >>,
      scroll_offset |-> 0 ]

\* The line count scroll_to_bottom and scroll_down give one message: its
\* '\n'-separated pieces, plus one line after anything but a "You: " message.
message_line_count(msg) ==
    IF ~starts_with(msg, YouPrefix)
    THEN split_count(msg, "\n") + 1
    ELSE split_count(msg, "\n")

\* The sum over the messages (summed by halves, to keep the evaluation shallow).
RECURSIVE total_lines(_)
total_lines(messages) ==
    IF messages = << >> THEN 0
    ELSE IF Len(messages) = 1 THEN message_line_count(messages[1])
    ELSE LET half == Len(messages) \div 2
         IN  total_lines(SubSeq(messages, 1, half))
             + total_lines(SubSeq(messages, half + 1, Len(messages)))

\* AppUI::scroll_to_bottom
scroll_to_bottom(ui) ==
    [ui EXCEPT !.scroll_offset = total_lines(ui.messages)]

\* AppUI::scroll_up
scroll_up(ui) ==
    IF ui.scroll_offset > 0
    THEN [ui EXCEPT !.scroll_offset = ui.scroll_offset - 1]
    ELSE ui

\* scroll_down without the test against the total line count.
scroll_down_unclamped(ui) ==
    [ui EXCEPT !.scroll_offset = ui.scroll_offset + 1]

\* AppUI::scroll_down
scroll_down(ui) ==
    IF ui.scroll_offset < total_lines(ui.messages)
    THEN [ui EXCEPT !.scroll_offset = ui.scroll_offset + 1]
    ELSE ui

\* add_message evicting only once the buffer has passed the cap.
add_message_evicts_late(ui, message) ==
    LET kept == IF Len(ui.messages) > MAX_MESSAGES
                THEN Tail(ui.messages)
                ELSE ui.messages
    IN  scroll_to_bottom([ui EXCEPT !.messages = Append(kept, message)])

\* add_message leaving the cursor where it was.
add_message_stays(ui, message) ==
    LET kept == IF Len(ui.messages) >= MAX_MESSAGES
                THEN Tail(ui.messages)
                ELSE ui.messages
    IN  [ui EXCEPT !.messages = Append(kept, message)]

\* AppUI::add_message
add_message(ui, message) ==
    LET kept == IF Len(ui.messages) >= MAX_MESSAGES
                THEN Tail(ui.messages)
                ELSE ui.messages
    IN  scroll_to_bottom([ui EXCEPT !.messages = Append(kept, message)])

\* The pieces of content that are non-empty once trimmed (one rendered Line each).
RECURSIVE CountNonEmpty(_)
CountNonEmpty(pieces) ==
    IF pieces = << >> THEN 0
    ELSE (IF trim(Head(pieces)) # << >> THEN 1 ELSE 0) + CountNonEmpty(Tail(pieces))

\* render's (role, content) of a message.
message_role(msg) ==
    IF starts_with(msg, UserTag) \/ starts_with(msg, AssistantTag)
    THEN IF starts_with(msg, UserTag) THEN "user" ELSE "assistant"
    ELSE IF starts_with(msg, YouPrefix) THEN "user"
    ELSE "assistant"

message_content(msg) ==
    IF starts_with(msg, UserTag) \/ starts_with(msg, AssistantTag)
    THEN LET parts == splitn2(msg, ":")
         IN  IF Len(parts) > 1 THEN trim(parts[2]) ELSE << >>
    ELSE IF starts_with(msg, YouPrefix) THEN SubSeq(msg, 6, Len(msg))
    ELSE LET parts == splitn2(msg, ":")
         IN  IF Len(parts) > 1 THEN trim(parts[2]) ELSE msg

\* The number of Lines render lays out for one message: its non-empty lines,
\* and a blank Line after a message that is not the user's.
rendered_line_count(msg) ==
    IF message_role(msg) = "user"
    THEN CountNonEmpty(split(message_content(msg), "\n"))
    ELSE CountNonEmpty(split(message_content(msg), "\n")) + 1

RECURSIVE rendered_lines(_)
rendered_lines(messages) ==
    IF messages = << >> THEN 0
    ELSE IF Len(messages) = 1 THEN rendered_line_count(messages[1])
    ELSE LET half == Len(messages) \div 2
         IN  rendered_lines(SubSeq(messages, 1, half))
             + rendered_lines(SubSeq(messages, half + 1, Len(messages)))

\* usize::saturating_sub
saturating_sub(a, b) == IF a > b THEN a - b ELSE 0

\* AppUI::render, as far as it writes the AppUI: the scroll offset is set from
\* the laid-out lines (the messages and the input line) and the chat height.
render(ui, chat_height) ==
    LET total == rendered_lines(ui.messages) + 1
        room  == saturating_sub(chat_height, 2)
    IN  IF total > room
        THEN [ui EXCEPT !.scroll_offset = saturating_sub(total, room)]
        ELSE [ui EXCEPT !.scroll_offset = 0]

(***************************************************************************)
(* PetState (pet.rs) and the mood decay of App::update.                    *)
(***************************************************************************)
\* PetState::default, created at the instant now.
PetState_default(now_) ==
    [ name             |-> DefaultName,
      mood             |-> F32_0_8,
      last_interaction |-> now_,
      chat_history     |-> << >> ]

\* update with the floor of the clamp at 0.0, the range the comment of pet.rs
\* gives the mood.
update_floor_zero(st, now_) ==
    LET hours_since_last == num_hours(now_ - st.last_interaction)
    IN  [st EXCEPT !.mood =
            F32Min(F32Max(F32Sub(st.mood, F32MulInt(hours_since_last, F32_0_1)), 0),
                   F32_1_0)]

\* update counting an hour that has begun as an hour elapsed.
update_rounds_up(st, now_) ==
    LET hours_since_last == num_hours(now_ - st.last_interaction + StepsPerHour - 1)
    IN  [st EXCEPT !.mood =
            F32Min(F32Max(F32Sub(st.mood, F32MulInt(hours_since_last, F32_0_1)),
                          F32_0_1),
                   F32_1_0)]

\* update with the hourly amount added to the mood instead of taken from it.
update_regains(st, now_) ==
    LET hours_since_last == num_hours(now_ - st.last_interaction)
    IN  [st EXCEPT !.mood =
            F32Min(F32Max(F32Add(st.mood, F32MulInt(hours_since_last, F32_0_1)),
                          F32_0_1),
                   F32_1_0)]

\* App::update: mood = (mood - hours_since_last * 0.1).max(0.1).min(1.0)
update(st, now_) ==
    LET hours_since_last == num_hours(now_ - st.last_interaction)
    IN  [st EXCEPT !.mood =
            F32Min(F32Max(F32Sub(st.mood, F32MulInt(hours_since_last, F32_0_1)),
                          F32_0_1),
                   F32_1_0)]

(***************************************************************************)
(* The backends (llm.rs, ollama.rs).  A backend is the record of its       *)
(* provider and, for Ollama, its conversation_history; OpenAIBackend has   *)
(* no history field, so nothing is kept for it.                            *)
(***************************************************************************)
\* ollama.rs: "Keep only last 5 exchanges"
CONTEXT_LIMIT == 5

\* ollama.rs: conversation_history.iter().rev().take(3)
PROMPT_EXCHANGES == 3

\* handle_input: "Keep only last 5 commands"
RECENT_LIMIT == 5

\* OllamaBackend::new / OpenAIBackend::new
Backend_new(provider) == [provider |-> provider, conversation_history |-> << >>]

\* OpenAIBackend::format_prompt
OpenAI_format_prompt(user_input, recent_commands) ==
    IF recent_commands # << >>
    THEN OpenAIHead \o join(recent_commands, << "\n" >>) \o OpenAIMid \o user_input
    ELSE user_input

\* "User: {}\nAssistant: {}\n\n" for the exchanges e[k], e[k-1], ..., k down to lo.
RECURSIVE OllamaExchanges(_, _, _)
OllamaExchanges(e, k, lo) ==
    IF k < lo \/ k < 1 THEN << >>
    ELSE OllamaUser \o e[k][1] \o OllamaAssistant \o e[k][2] \o OllamaSep
         \o OllamaExchanges(e, k - 1, lo)

\* OllamaBackend::format_prompt
Ollama_format_prompt(llm, user_input, recent_commands) ==
    LET n == Len(llm.conversation_history)
    IN  OllamaExchanges(llm.conversation_history, n, n - PROMPT_EXCHANGES + 1)
        \o (IF recent_commands # << >>
            THEN OllamaCommands \o join(recent_commands, << "\n" >>) \o OllamaSep
            ELSE << >>)
        \o OllamaCurrent \o user_input

format_prompt(llm, user_input, recent_commands) ==
    IF llm.provider = "Ollama"
    THEN Ollama_format_prompt(llm, user_input, recent_commands)
    ELSE OpenAI_format_prompt(user_input, recent_commands)

\* add_to_history letting the context grow to six exchanges.
add_to_history_keeps_six(llm, user_message, assistant_response) ==
    IF llm.provider = "Ollama"
    THEN LET pushed == Append(llm.conversation_history,
                              << user_message, assistant_response >>)
         IN  [llm EXCEPT !.conversation_history =
                 IF Len(pushed) > CONTEXT_LIMIT + 1 THEN Tail(pushed) ELSE pushed]
    ELSE llm

\* OllamaBackend::add_to_history
add_to_history(llm, user_message, assistant_response) ==
    IF llm.provider = "Ollama"
    THEN LET pushed == Append(llm.conversation_history,
                              << user_message, assistant_response >>)
         IN  [llm EXCEPT !.conversation_history =
                 IF Len(pushed) > CONTEXT_LIMIT THEN Tail(pushed) ELSE pushed]
    ELSE llm

\* What one round trip to the provider can bring back.
WireFailures == {"send_failed", "bad_status", "body_unreadable", "bad_json"}

\* generate_response answering the confusion string for a body that is not JSON.
generate_response_lenient(wire) ==
    IF wire.kind \in WireFailures \ {"bad_json"} THEN [ok |-> FALSE, text |-> << >>]
    ELSE IF wire.kind \in {"no_text_field", "bad_json"}
    THEN [ok |-> TRUE, text |-> ConfusedReply]
    ELSE [ok |-> TRUE, text |-> wire.text]

\* generate_response: Err on a transport failure, a non-success status, an
\* unreadable body or a body that is not JSON; otherwise Ok with the text
\* field, or with the fixed confusion string when the field is absent.
generate_response(wire) ==
    IF wire.kind \in WireFailures THEN [ok |-> FALSE, text |-> << >>]
    ELSE IF wire.kind = "no_text_field" THEN [ok |-> TRUE, text |-> ConfusedReply]
    ELSE [ok |-> TRUE, text |-> wire.text]

(***************************************************************************)
(* App::handle_input (main.rs 128-245, app.rs 112-209).  An App is the     *)
(* record [ui, state, llm, recent_commands].  The handler is cut at its    *)
(* one suspension point, the await of generate_response: handle_input_start*)
(* runs to the return, the exit or the request, and handle_input_finish    *)
(* runs from the response to the return.                                   *)
(***************************************************************************)
\* format!("{}: {}", name, text)
Says(name, text) == name \o << ":", " " >> \o text

\* format!("You: {}", user_message)
YouSay(user_message) == YouPrefix \o user_message

\* The "/stats" text.
stats_text(st) ==
    StatsHead \o Decimal(PercentOf(st.mood)) \o StatsMid
    \o format_time(st.last_interaction) \o StatsTail
    \o Decimal(Len(st.chat_history)) \o StatsEnd

\* The '$' capture: the text after the marker, trimmed, is pushed and the
\* oldest entry removed when the list has grown past 5.
track_command(recent_commands, user_message) ==
    IF starts_with(user_message, << "$" >>)
    THEN LET pushed == Append(recent_commands,
                              trim(strip_prefix(user_message, << "$" >>)))
         IN  IF Len(pushed) > RECENT_LIMIT THEN Tail(pushed) ELSE pushed
    ELSE recent_commands

\* IsCommand taking every line that starts with '/' for a command.
IsCommand_any_slash(user_message) == starts_with(user_message, << "/" >>)

\* IsCommand matching the commands in any letter case.
IsCommand_any_case(user_message) ==
    /\ starts_with(user_message, << "/" >>)
    /\ to_lowercase(trim(user_message))
          \in {CmdStats, CmdClear, CmdPurge, CmdHelp, CmdExit}

\* The trimmed texts the match of handle_input has an arm for.
IsCommand(user_message) ==
    /\ starts_with(user_message, << "/" >>)
    /\ trim(user_message) \in {CmdStats, CmdClear, CmdPurge, CmdHelp, CmdExit}

\* handle_exit returning to the loop after the save, as the arm in app.rs does.
handle_exit_returns(a, variant_, save_ok) ==
    [ app   |-> [a EXCEPT !.ui = add_message(@, Says(a.state.name, GoodbyeText))],
      saved |-> TRUE,
      err   |-> ~save_ok,
      next  |-> "return" ]

\* The farewell and the save of "/exit".  In main.rs the process then exits;
\* in app.rs the handler returns Ok.  A failed save returns the error.
handle_exit(a, variant_, save_ok) ==
    [ app   |-> [a EXCEPT !.ui = add_message(@, Says(a.state.name, GoodbyeText))],
      saved |-> TRUE,
      err   |-> ~save_ok,
      next  |-> IF save_ok /\ variant_ = "main" THEN "exit" ELSE "return" ]

\* cmd_stats counting the command as an interaction that lifts the mood.
cmd_stats_lifts_mood(a) ==
    [a EXCEPT !.state.mood = F32Min(F32Add(@, F32_0_1), F32_1_0),
              !.ui = [add_message(@, Says(a.state.name, stats_text(a.state)))
                         EXCEPT !.input = << >>]]

\* "/stats": the stats are shown.
cmd_stats(a) ==
    [a EXCEPT !.ui = [add_message(@, Says(a.state.name, stats_text(a.state)))
                         EXCEPT !.input = << >>]]

\* cmd_clear emptying the chat history with the window.
cmd_clear_forgets(a) ==
    [a EXCEPT !.state.chat_history = << >>,
              !.ui = [add_message([@ EXCEPT !.messages = << >>], ClearedText)
                         EXCEPT !.input = << >>]]

\* cmd_clear showing the notice below the lines it should have cleared.
cmd_clear_keeps_lines(a) ==
    [a EXCEPT !.ui = [add_message(@, ClearedText) EXCEPT !.input = << >>]]

\* "/clear": the messages are cleared and the notice is shown.
cmd_clear(a) ==
    [a EXCEPT !.ui = [add_message([@ EXCEPT !.messages = << >>], ClearedText)
                         EXCEPT !.input = << >>]]

\* cmd_purge clearing the messages and not the chat history.
cmd_purge_keeps_history(a) ==
    [a EXCEPT !.ui = add_message([@ EXCEPT !.messages = << >>], PurgedText)]

\* "/purge", up to its save: the chat history and the messages are cleared and
\* the notice is shown.
cmd_purge(a) ==
    [a EXCEPT !.state.chat_history = << >>,
              !.ui = add_message([@ EXCEPT !.messages = << >>], PurgedText)]

\* cmd_help recording the command and its answer as an exchange.
cmd_help_recorded(a) ==
    [a EXCEPT !.state.chat_history = Append(@, << a.ui.input, HelpText >>),
              !.ui = [add_message(@, Says(a.state.name, HelpText))
                         EXCEPT !.input = << >>]]

\* "/help": the command list is shown.
cmd_help(a) ==
    [a EXCEPT !.ui = [add_message(@, Says(a.state.name, HelpText))
                         EXCEPT !.input = << >>]]

\* The arms of the command match.  "/purge" clears the input after its save,
\* which a failed save does not reach.
handle_command(a, variant_, save_ok) ==
    LET cmd == trim(a.ui.input)
    IN  IF cmd = CmdStats THEN
            [ app |-> cmd_stats(a), saved |-> FALSE, err |-> FALSE, next |-> "return" ]
        ELSE IF cmd = CmdClear THEN
            [ app |-> cmd_clear(a), saved |-> FALSE, err |-> FALSE, next |-> "return" ]
        ELSE IF cmd = CmdPurge THEN
            [ app   |-> IF save_ok
                        THEN [cmd_purge(a) EXCEPT !.ui.input = << >>]
                        ELSE cmd_purge(a),
              saved |-> TRUE, err |-> ~save_ok, next |-> "return" ]
        ELSE IF cmd = CmdHelp THEN
            [ app |-> cmd_help(a), saved |-> FALSE, err |-> FALSE, next |-> "return" ]
        ELSE handle_exit(a, variant_, save_ok)

\* begin_exchange lifting the mood and leaving last_interaction as it was.
begin_exchange_keeps_time(st, now_) ==
    [st EXCEPT !.mood = F32Min(F32Add(st.mood, F32_0_1), F32_1_0)]

\* "Update mood and interaction time", before the request is made.
begin_exchange(st, now_) ==
    [st EXCEPT !.last_interaction = now_,
               !.mood = F32Min(F32Add(st.mood, F32_0_1), F32_1_0)]

\* handle_input up to its return, its exit, or the request it awaits.
handle_input_start(a, variant_, now_, save_ok) ==
    LET user_message == a.ui.input
    IN  IF user_message = << >> THEN
            [ app |-> a, saved |-> FALSE, err |-> FALSE, next |-> "return" ]
        ELSE IF trim(user_message) = CmdExit THEN
            handle_exit(a, variant_, save_ok)
        ELSE
            LET shown == [a EXCEPT
                             !.ui = add_message(@, YouSay(user_message)),
                             !.recent_commands = track_command(@, user_message)]
            IN  IF IsCommand(user_message)
                THEN handle_command(shown, variant_, save_ok)
                ELSE [ app   |-> [shown EXCEPT !.state = begin_exchange(@, now_)],
                       saved |-> FALSE, err |-> FALSE, next |-> "await" ]

\* fallback giving a treat the boost of play.
fallback_treat_as_play(user_message, mood) ==
    IF contains(to_lowercase(user_message), TreatWord)
    THEN [ reply |-> TreatReply, mood |-> F32Min(F32Add(mood, F32_0_15), F32_1_0) ]
    ELSE IF contains(to_lowercase(user_message), PlayWord)
    THEN [ reply |-> PlayReply, mood |-> F32Min(F32Add(mood, F32_0_15), F32_1_0) ]
    ELSE IF mood > F32_0_8 THEN [ reply |-> ContentReply, mood |-> mood ]
    ELSE IF mood > F32_0_4 THEN [ reply |-> CuriousReply, mood |-> mood ]
    ELSE [ reply |-> DistantReply, mood |-> mood ]

\* fallback testing the band above 0.4 before the band above 0.8.
fallback_bands_reordered(user_message, mood) ==
    IF contains(to_lowercase(user_message), TreatWord)
    THEN [ reply |-> TreatReply, mood |-> F32Min(F32Add(mood, F32_0_2), F32_1_0) ]
    ELSE IF contains(to_lowercase(user_message), PlayWord)
    THEN [ reply |-> PlayReply, mood |-> F32Min(F32Add(mood, F32_0_15), F32_1_0) ]
    ELSE IF mood > F32_0_4 THEN [ reply |-> CuriousReply, mood |-> mood ]
    ELSE IF mood > F32_0_8 THEN [ reply |-> ContentReply, mood |-> mood ]
    ELSE [ reply |-> DistantReply, mood |-> mood ]

\* fallback lifting the mood in the curious band too.
fallback_curious_lifts(user_message, mood) ==
    IF contains(to_lowercase(user_message), TreatWord)
    THEN [ reply |-> TreatReply, mood |-> F32Min(F32Add(mood, F32_0_2), F32_1_0) ]
    ELSE IF contains(to_lowercase(user_message), PlayWord)
    THEN [ reply |-> PlayReply, mood |-> F32Min(F32Add(mood, F32_0_15), F32_1_0) ]
    ELSE IF mood > F32_0_8 THEN [ reply |-> ContentReply, mood |-> mood ]
    ELSE IF mood > F32_0_4
    THEN [ reply |-> CuriousReply, mood |-> F32Min(F32Add(mood, F32_0_1), F32_1_0) ]
    ELSE [ reply |-> DistantReply, mood |-> mood ]

\* The "Fallback responses" of the Err arm: the reply and the mood it leaves.
fallback(user_message, mood) ==
    IF contains(to_lowercase(user_message), TreatWord)
    THEN [ reply |-> TreatReply, mood |-> F32Min(F32Add(mood, F32_0_2), F32_1_0) ]
    ELSE IF contains(to_lowercase(user_message), PlayWord)
    THEN [ reply |-> PlayReply, mood |-> F32Min(F32Add(mood, F32_0_15), F32_1_0) ]
    ELSE IF mood > F32_0_8 THEN [ reply |-> ContentReply, mood |-> mood ]
    ELSE IF mood > F32_0_4 THEN [ reply |-> CuriousReply, mood |-> mood ]
    ELSE [ reply |-> DistantReply, mood |-> mood ]

\* handle_input_finish adding the exchange to the context of the backend
\* whether the backend answered or the fallback did.
handle_input_finish_remembers_all(a, user_message, result, save_ok) ==
    LET fb       == fallback(user_message, a.state.mood)
        response == IF result.ok THEN result.text ELSE fb.reply
        replied  ==
            [a EXCEPT
                !.llm = add_to_history(@, user_message, response),
                !.state.mood = IF result.ok THEN @ ELSE fb.mood,
                !.state.chat_history = Append(@, << user_message, response >>),
                !.ui = [add_message(@, Says(a.state.name, response))
                           EXCEPT !.input = << >>]]
    IN  [ app |-> replied, saved |-> TRUE, err |-> ~save_ok, next |-> "return" ]

\* handle_input_finish with a fallback that takes the pet for content once it
\* has a history to look back on.
handle_input_finish_by_history(a, user_message, result, save_ok) ==
    LET fb       == fallback(user_message,
                             IF Len(a.state.chat_history) > 1 THEN F32_1_0
                             ELSE a.state.mood)
        response == IF result.ok THEN result.text ELSE fb.reply
        replied  ==
            [a EXCEPT
                !.llm = IF result.ok
                        THEN add_to_history(@, user_message, response)
                        ELSE @,
                !.state.mood = IF result.ok THEN @ ELSE fb.mood,
                !.state.chat_history = Append(@, << user_message, response >>),
                !.ui = [add_message(@, Says(a.state.name, response))
                           EXCEPT !.input = << >>]]
    IN  [ app |-> replied, saved |-> TRUE, err |-> ~save_ok, next |-> "return" ]

\* handle_input from the result of generate_response to its return.
handle_input_finish(a, user_message, result, save_ok) ==
    LET fb       == fallback(user_message, a.state.mood)
        response == IF result.ok THEN result.text ELSE fb.reply
        replied  ==
            [a EXCEPT
                !.llm = IF result.ok
                        THEN add_to_history(@, user_message, response)
                        ELSE @,
                !.state.mood = IF result.ok THEN @ ELSE fb.mood,
                !.state.chat_history = Append(@, << user_message, response >>),
                !.ui = [add_message(@, Says(a.state.name, response))
                           EXCEPT !.input = << >>]]
    IN  [ app |-> replied, saved |-> TRUE, err |-> ~save_ok, next |-> "return" ]

(***************************************************************************)
(* The session: App::new, and the event loop of main (main.rs 299-342)     *)
(* and of Terminal::run (terminal.rs 41-86).                               *)
(***************************************************************************)
VARIABLES
    app,          \* the App: [ui, state, llm, recent_commands]
    disk,         \* the persisted record: NoRecord or a document
    now,          \* the clock (Utc::now), in steps of 1/StepsPerHour hour
    pc,           \* where the loop stands: "start", "poll", "await", "tick",
                  \* or how it ended: "exit0", "esc", "error"
    pending,      \* the request handle_input awaits: its user_message and prompt
    before,       \* the turn in progress: the PetState it found, and when
    variant,      \* "main": main.rs is the engine; "app": app.rs and terminal.rs
    chat_height,  \* the height of the chat area render is given
    enters,       \* the non-empty lines entered so far
    save_result,  \* what the save of the latest step returned, if it made one
    config,       \* the configuration: the config.toml App::new found, the
                  \* file it left, and the Config in use: [found, file, used]
    session       \* what the session is given: [limit, lines, wires], the
                  \* number of lines the user enters, the lines they choose
                  \* from, and what a round trip to the provider can bring

vars == << app, disk, now, pc, pending, before, variant, chat_height, enters,
           save_result, session, config >>

NoRequest == [user_message |-> << >>, prompt |-> << >>, outstanding |-> FALSE]

NoTurn == [in_turn |-> FALSE]

NoRecord == [exists |-> FALSE]

(***************************************************************************)
(* The persisted record.  confy::store writes the PetState as a TOML       *)
(* document and confy::load parses it: name and the texts of chat_history  *)
(* as basic strings (quoted, with '"', '\' and the newline escaped), mood  *)
(* as a float (the f32 widened to f64, which is exact, and narrowed back   *)
(* to f32 on load), last_interaction as an RFC 3339 string, chat_history   *)
(* as an array of two-element arrays.                                      *)
(***************************************************************************)
Quote == "\""

Backslash == "\\"

RECURSIVE toml_escape(_)
toml_escape(s) ==
    IF s = << >> THEN << >>
    ELSE (IF Head(s) \in {Quote, Backslash} THEN << Backslash, Head(s) >>
          ELSE IF Head(s) = "\n" THEN << Backslash, "n" >>
          ELSE << Head(s) >>) \o toml_escape(Tail(s))

toml_string(s) == << Quote >> \o toml_escape(s) \o << Quote >>

\* The text between the quotes is well formed: no bare quote, no bare
\* newline, and each backslash begins one of the escapes written above.
RECURSIVE toml_body_ok(_)
toml_body_ok(s) ==
    IF s = << >> THEN TRUE
    ELSE IF Head(s) = Backslash
    THEN /\ Len(s) >= 2
         /\ s[2] \in {Quote, Backslash, "n"}
         /\ toml_body_ok(SubSeq(s, 3, Len(s)))
    ELSE Head(s) \notin {Quote, "\n"} /\ toml_body_ok(Tail(s))

toml_string_ok(t) ==
    /\ Len(t) >= 2
    /\ t[1] = Quote
    /\ t[Len(t)] = Quote
    /\ toml_body_ok(SubSeq(t, 2, Len(t) - 1))

RECURSIVE toml_unescape(_)
toml_unescape(s) ==
    IF s = << >> THEN << >>
    ELSE IF Head(s) = Backslash
    THEN << (IF s[2] = "n" THEN "\n" ELSE s[2]) >>
         \o toml_unescape(SubSeq(s, 3, Len(s)))
    ELSE << Head(s) >> \o toml_unescape(Tail(s))

parse_toml_string(t) == toml_unescape(SubSeq(t, 2, Len(t) - 1))

\* A timestamp only to the whole hour.
rfc3339_whole_hours(t) ==
    << "2", "0", "2", "4", "-", "0", "1", "-", "0", "1", "T" >>
    \o Decimal2(t \div StepsPerHour)
    \o << ":", "0", "0", ":", "0", "0", "Z" >>

\* DateTime<Utc> as serde writes it, the session starting at
\* 2024-01-01T00:00:00Z.
rfc3339(t) ==
    << "2", "0", "2", "4", "-", "0", "1", "-", "0", "1", "T" >>
    \o Decimal2(t \div StepsPerHour) \o << ":" >>
    \o Decimal2((60 \div StepsPerHour) * (t % StepsPerHour))
    \o << ":", "0", "0", "Z" >>

IsDigit(c) == \E d \in 1..10 : DigitChars[d] = c

DigitValue(c) == (CHOOSE d \in 1..10 : DigitChars[d] = c) - 1

rfc3339_ok(text) ==
    /\ Len(text) = 20
    /\ SubSeq(text, 1, 11) = << "2", "0", "2", "4", "-", "0", "1", "-", "0", "1", "T" >>
    /\ \A i \in {12, 13, 15, 16} : IsDigit(text[i])
    /\ SubSeq(text, 14, 14) = << ":" >>
    /\ SubSeq(text, 17, 20) = << ":", "0", "0", "Z" >>
    /\ 10 * DigitValue(text[12]) + DigitValue(text[13]) < 24
    /\ 10 * DigitValue(text[15]) + DigitValue(text[16]) < 60

\* The instant of a timestamp, in steps of the clock.
parse_rfc3339(text) ==
    (10 * DigitValue(text[12]) + DigitValue(text[13])) * StepsPerHour
    + (10 * DigitValue(text[15]) + DigitValue(text[16])) \div (60 \div StepsPerHour)

\* confy::store("petcli", None, &state): the document written.
Stored(st) ==
    [ exists           |-> TRUE,
      name             |-> toml_string(st.name),
      mood             |-> st.mood,
      last_interaction |-> rfc3339(st.last_interaction),
      chat_history     |-> [i \in 1..Len(st.chat_history) |->
                              << toml_string(st.chat_history[i][1]),
                                 toml_string(st.chat_history[i][2]) >>] ]

\* The document deserializes into a PetState.
record_ok(record) ==
    /\ record.exists
    /\ DOMAIN record = {"exists", "name", "mood", "last_interaction", "chat_history"}
    /\ toml_string_ok(record.name)
    /\ rfc3339_ok(record.last_interaction)
    /\ \A i \in 1..Len(record.chat_history) :
          /\ toml_string_ok(record.chat_history[i][1])
          /\ toml_string_ok(record.chat_history[i][2])

\* confy::load("petcli", None).unwrap_or_default(), at the instant now.
load_state(record, now_) ==
    IF record_ok(record)
    THEN [ name             |-> parse_toml_string(record.name),
           mood             |-> F32Round(record.mood),
           last_interaction |-> parse_rfc3339(record.last_interaction),
           chat_history     |-> [i \in 1..Len(record.chat_history) |->
                                   << parse_toml_string(record.chat_history[i][1]),
                                      parse_toml_string(record.chat_history[i][2]) >>] ]
    ELSE PetState_default(now_)

\* The lines the user types in this model, and the texts a backend answers.
Hi == << "h", "i" >>

Treat == << "T", "r", "e", "a", "t" >>

Play == << "p", "l", "a", "y" >>

Bogus == << "/", "x" >>

Purr == << "P", "u", "r", "r" >>

Lines == {CmdExit, CmdStats, CmdClear, CmdPurge, CmdHelp, Bogus, Hi, Treat, Play}

Wires ==
    {[kind |-> k, text |-> << >>] : k \in WireFailures \cup {"no_text_field"}}
    \cup {[kind |-> "text", text |-> Purr]}

Providers == {"OpenAI", "Ollama"}

ChatHeights == {6}

\* The record confy::load finds, when it finds one: an earlier session's, with
\* mood 0.5 and one exchange.
LoadedRecord ==
    [ name             |-> DefaultName,
      mood             |-> F32_1_0 \div 2,
      last_interaction |-> 0,
      chat_history     |-> << << Hi, Purr >> >> ]

\* App::new: the state is loaded (or the default taken), the name is the
\* configured one, and the scrollback is rebuilt from the chat history.
\* (The loop over the history is run half by half, to keep the evaluation
\* shallow: the second half is loaded onto what the first half left, and the
\* test of the offset, a usize, has the first half evaluated before the second
\* is begun.)
RECURSIVE load_history(_, _, _)
load_history(ui, name, history) ==
    IF history = << >> THEN ui
    ELSE IF Len(history) = 1
    THEN add_message(add_message(ui, YouSay(history[1][1])),
                     Says(name, history[1][2]))
    ELSE LET half  == Len(history) \div 2
             first == load_history(ui, name, SubSeq(history, 1, half))
         IN  IF first.scroll_offset >= 0
             THEN load_history(first, name, SubSeq(history, half + 1, Len(history)))
             ELSE first

\* split_whitespace().last(): the last run of non-blank characters of the line.
RECURSIVE last_word(_)
last_word(s) ==
    LET t == trim_end(s)
    IN  IF t = << >> THEN << >>
        ELSE IF \E i \in 1..Len(t) : IsWhitespace(t[i])
        THEN last_word(Tail(t))
        ELSE t

\* clean_history_line: after the last ';' of a line that starts with ':',
\* otherwise the last word of the line.
clean_history_line(line) ==
    IF starts_with(line, << ":" >>)
    THEN LET pieces == split(line, ";") IN trim(pieces[Len(pieces)])
    ELSE last_word(line)

\* Config::default: command_history_limit
command_history_limit == 50

\* load_shell_history over the lines of the first history file found: each
\* cleaned line that is not empty is pushed and the oldest entry removed when
\* the list has grown past command_history_limit.  Without a history file
\* (file_lines empty) nothing is loaded.
RECURSIVE load_shell_history(_, _)
load_shell_history(recent_commands, file_lines) ==
    IF file_lines = << >> THEN recent_commands
    ELSE LET cmd    == clean_history_line(Head(file_lines))
             pushed == Append(recent_commands, cmd)
         IN  load_shell_history(
                IF cmd = << >> THEN recent_commands
                ELSE IF Len(pushed) > command_history_limit THEN Tail(pushed)
                ELSE pushed,
                Tail(file_lines))

(***************************************************************************)
(* The configuration (config.rs) and its file, config.toml.  The file is   *)
(* missing, or holds a document: toml::to_string writes the Config field   *)
(* by field (the limit as an integer, the rest as basic strings, the       *)
(* provider by the name of its variant) and toml::from_str parses it, an   *)
(* absent field or a value of the wrong kind making the parse fail.        *)
(***************************************************************************)
DefaultAscii ==
    << "\n", " ", " ", "/", Backslash, "_", "_", "_", "/", Backslash, "\n", " ", "(",
       " ", " ", "o", " ", "o", " ", " ", ")", "\n", " ", "(", " ", " ", "=", "^", "=",
       " ", " ", ")", "\n", " ", " ", "(", "_", "_", "_", "_", ")", "\n" >>

DefaultOllamaUrl ==
    << "h", "t", "t", "p", ":", "/", "/", "l", "o", "c", "a", "l", "h", "o", "s", "t",
       ":", "1", "1", "4", "3", "4" >>

DefaultOllamaModel ==
    << "l", "l", "a", "m", "a", "2" >>

OpenAIName ==
    << "O", "p", "e", "n", "A", "I" >>

OllamaName ==
    << "O", "l", "l", "a", "m", "a" >>

\* Config::default
Config_default ==
    [ command_history_limit |-> command_history_limit,
      pet_name              |-> DefaultName,
      pet_ascii             |-> DefaultAscii,
      llm_provider          |-> "OpenAI",
      ollama_url            |-> DefaultOllamaUrl,
      ollama_model          |-> DefaultOllamaModel ]

NoFile == [kind |-> "missing"]

FileOf(doc) == [kind |-> "file", doc |-> doc]

\* toml::to_string(&config)
ConfigDocument(c) ==
    [ command_history_limit |-> Decimal(c.command_history_limit),
      pet_name              |-> toml_string(c.pet_name),
      pet_ascii             |-> toml_string(c.pet_ascii),
      llm_provider          |-> toml_string(IF c.llm_provider = "OpenAI"
                                            THEN OpenAIName ELSE OllamaName),
      ollama_url            |-> toml_string(c.ollama_url),
      ollama_model          |-> toml_string(c.ollama_model) ]

RECURSIVE parse_usize(_)
parse_usize(text) ==
    IF Len(text) = 1 THEN DigitValue(text[1])
    ELSE 10 * parse_usize(SubSeq(text, 1, Len(text) - 1)) + DigitValue(text[Len(text)])

\* toml::from_str::<Config> succeeds on the document.
config_ok(doc) ==
    /\ DOMAIN doc = {"command_history_limit", "pet_name", "pet_ascii", "llm_provider",
                     "ollama_url", "ollama_model"}
    /\ doc.command_history_limit # << >>
    /\ \A i \in 1..Len(doc.command_history_limit) : IsDigit(doc.command_history_limit[i])
    /\ \A f \in {"pet_name", "pet_ascii", "llm_provider", "ollama_url", "ollama_model"} :
          toml_string_ok(doc[f])
    /\ parse_toml_string(doc.llm_provider) \in {OpenAIName, OllamaName}

parse_config(doc) ==
    [ command_history_limit |-> parse_usize(doc.command_history_limit),
      pet_name              |-> parse_toml_string(doc.pet_name),
      pet_ascii             |-> parse_toml_string(doc.pet_ascii),
      llm_provider          |-> IF parse_toml_string(doc.llm_provider) = OpenAIName
                                THEN "OpenAI" ELSE "Ollama",
      ollama_url            |-> parse_toml_string(doc.ollama_url),
      ollama_model          |-> parse_toml_string(doc.ollama_model) ]

\* App::new, the configuration: the Config it will use and the file it leaves.
\* A file that exists is read and parsed, the defaults taking the place of
\* what does not parse; a missing file is created with the defaults in it.
load_config(file) ==
    IF file.kind = "file"
    THEN [ config |-> IF config_ok(file.doc) THEN parse_config(file.doc)
                      ELSE Config_default,
           file   |-> file ]
    ELSE [ config |-> Config_default,
           file   |-> FileOf(ConfigDocument(Config_default)) ]

\* The config.toml of a user who chose the provider.
ConfigFileFor(provider) ==
    FileOf(ConfigDocument([Config_default EXCEPT !.llm_provider = provider]))

App_new(loaded, pet_name, provider, file_lines) ==
    LET st == [loaded EXCEPT !.name = pet_name]
    IN  [ ui              |-> load_history(AppUI_new, st.name, st.chat_history),
          state           |-> st,
          llm             |-> Backend_new(provider),
          recent_commands |-> load_shell_history(<< >>, file_lines) ]

\* The session of the model: lines from Lines, any outcome of the round trip.
Session == [limit |-> MaxEnters, lines |-> Lines, wires |-> Wires]

\* The start of a session: the engine, what the session is given, the stored
\* records it may find (NoRecord: none), the history files and the providers.
InitWith(variant_, session_, records, files, config_files) ==
    /\ now = 0
    /\ variant = variant_
    /\ session = session_
    /\ chat_height \in ChatHeights
    /\ \E record \in records, file_lines \in files, config_file \in config_files :
          LET loaded == load_config(config_file)
          IN  /\ disk = record
              /\ config = [ found |-> config_file,
                            file  |-> loaded.file,
                            used  |-> loaded.config ]
              /\ app = App_new(load_state(record, 0), loaded.config.pet_name,
                               loaded.config.llm_provider, file_lines)
    /\ pc = "start"
    /\ pending = NoRequest
    /\ before = NoTurn
    /\ enters = 0
    /\ save_result = "none"

\* The start of a session whose config.toml names one of the providers.
InitOf(variant_, session_, records, files, providers) ==
    InitWith(variant_, session_, records, files,
             {ConfigFileFor(provider) : provider \in providers})

Init == InitOf("main", Session, {NoRecord, Stored(LoadedRecord)}, {<< >>}, Providers)

(***************************************************************************)
(* The loop.  Each pass draws the frame, polls for an event until the next *)
(* tick is due, handles the event it read, and runs the tick if 100 ms     *)
(* have passed since the last one.  pc = "poll" is the loop waiting in     *)
(* poll, the frame drawn; pc = "tick" is the loop at the test of the tick, *)
(* the event handled; pc = "await" is handle_input awaiting the backend.   *)
(***************************************************************************)
\* terminal.draw(|f| ui(f, &mut app))
Draw(a) == [a EXCEPT !.ui = render(@, chat_height)]

\* A step that saves nothing and touches neither the request nor the session's
\* fixed parameters.
Plain ==
    /\ save_result' = "none"
    /\ UNCHANGED << disk, now, pending, before, variant, chat_height, enters,
                    session, config >>

\* The first frame is drawn and the loop polls.
FirstDraw ==
    /\ pc = "start"
    /\ app' = Draw(app)
    /\ pc' = "poll"
    /\ Plain

\* The clock moves on (while the loop polls, or while the request is awaited).
Advance ==
    /\ pc \in {"poll", "await"}
    /\ now < MaxNow
    /\ now' = now + 1
    /\ UNCHANGED << app, disk, pc, pending, before, variant, chat_height, enters,
                    save_result, session, config >>

\* The tick, and the frame the next pass draws.
Tick(a) == Draw([a EXCEPT !.state = update(@, now)])

\* Timeout with the tick running while the request is awaited.
Timeout_during_await ==
    /\ pc \in {"poll", "await"}
    /\ app' = Tick(app)
    /\ pc' = pc
    /\ Plain

\* poll timed out: no event, and the tick is due.
Timeout ==
    /\ pc = "poll"
    /\ app' = Tick(app)
    /\ pc' = "poll"
    /\ Plain

\* KeyCode::Char(c), for a line typed in one burst: each character of the line
\* is read by one pass of the loop, which pushes it on the input; no tick is
\* due within the burst, and each pass but the last is followed by the draw of
\* the next.  The user starts a line on an empty input.
RECURSIVE push_chars(_, _)
push_chars(a, line) ==
    IF line = << >> THEN a
    ELSE LET pushed == [a EXCEPT !.ui.input = Append(@, Head(line))]
         IN  IF Tail(line) = << >> THEN pushed
             ELSE push_chars(Draw(pushed), Tail(line))

KeyChars(line) ==
    /\ pc = "poll"
    /\ enters < session.limit
    /\ app.ui.input = << >>
    /\ app' = push_chars(app, line)
    /\ pc' = "tick"
    /\ Plain

\* KeyCode::Backspace, held until the line is erased: each pass pops one
\* character (on an empty input the pop does nothing).
RECURSIVE pop_chars(_)
pop_chars(a) ==
    LET popped == [a EXCEPT !.ui.input =
                      IF @ = << >> THEN @ ELSE SubSeq(@, 1, Len(@) - 1)]
    IN  IF popped.ui.input = << >> THEN popped
        ELSE pop_chars(Draw(popped))

KeyBackspace ==
    /\ pc = "poll"
    /\ app' = pop_chars(app)
    /\ pc' = "tick"
    /\ Plain

\* KeyCode::Up
KeyUp ==
    /\ pc = "poll"
    /\ app' = [app EXCEPT !.ui = scroll_up(@)]
    /\ pc' = "tick"
    /\ Plain

\* KeyCode::Down
KeyDown ==
    /\ pc = "poll"
    /\ app' = [app EXCEPT !.ui = scroll_down(@)]
    /\ pc' = "tick"
    /\ Plain

\* KeyCode::PageUp: for _ in 0..5 { scroll_up() }
KeyPageUp ==
    /\ pc = "poll"
    /\ app' = [app EXCEPT !.ui =
                  scroll_up(scroll_up(scroll_up(scroll_up(scroll_up(@)))))]
    /\ pc' = "tick"
    /\ Plain

\* KeyCode::PageDown: for _ in 0..5 { scroll_down() }
KeyPageDown ==
    /\ pc = "poll"
    /\ app' = [app EXCEPT !.ui =
                  scroll_down(scroll_down(scroll_down(scroll_down(scroll_down(@)))))]
    /\ pc' = "tick"
    /\ Plain

\* Any other key, or an event that is no key: nothing is handled.
KeyOther ==
    /\ pc = "poll"
    /\ pc' = "tick"
    /\ UNCHANGED app
    /\ Plain

\* KeyCode::Esc: break, and the loop's function returns Ok.
KeyEsc ==
    /\ pc = "poll"
    /\ pc' = "esc"
    /\ UNCHANGED app
    /\ Plain

\* KeyCode::Enter: handle_input runs to its return, its exit or its request.
\* main.rs propagates an error of handle_input out of main (the '?' after the
\* await); terminal.rs prints it and goes on.
KeyEnter(save_ok) ==
    /\ pc = "poll"
    /\ app.ui.input = << >> \/ enters < session.limit
    /\ LET r == handle_input_start(app, variant, now, save_ok)
       IN  /\ app' = r.app
           /\ pc' = IF r.next = "await" THEN "await"
                    ELSE IF r.next = "exit" THEN "exit0"
                    ELSE IF r.err /\ variant = "main" THEN "error"
                    ELSE "tick"
           /\ pending' = IF r.next = "await"
                         THEN [ user_message |-> app.ui.input,
                                prompt       |-> format_prompt(r.app.llm, app.ui.input,
                                                               r.app.recent_commands),
                                outstanding  |-> TRUE ]
                         ELSE NoRequest
           /\ before' = IF r.next = "await"
                        THEN [in_turn |-> TRUE, state |-> app.state, at |-> now]
                        ELSE NoTurn
           /\ disk' = IF r.saved /\ save_ok THEN Stored(r.app.state) ELSE disk
           /\ save_result' = IF ~r.saved THEN "none"
                             ELSE IF save_ok THEN "ok" ELSE "err"
    /\ enters' = IF app.ui.input = << >> THEN enters ELSE enters + 1
    /\ UNCHANGED << now, variant, chat_height, session, config >>

\* The awaited generate_response resolves, and handle_input runs to its return.
Resolve(wire, save_ok) ==
    /\ pc = "await"
    /\ LET r == handle_input_finish(app, pending.user_message,
                                    generate_response(wire), save_ok)
       IN  /\ app' = r.app
           /\ pc' = IF r.err /\ variant = "main" THEN "error" ELSE "tick"
           /\ disk' = IF save_ok THEN Stored(r.app.state) ELSE disk
           /\ save_result' = IF save_ok THEN "ok" ELSE "err"
    /\ pending' = NoRequest
    /\ before' = NoTurn
    /\ UNCHANGED << now, variant, chat_height, enters, session, config >>

\* if last_tick.elapsed() >= tick_rate { app.update(); ... }, then the next pass.
TickDue ==
    /\ pc = "tick"
    /\ app' = Tick(app)
    /\ pc' = "poll"
    /\ Plain

TickNotDue ==
    /\ pc = "tick"
    /\ app' = Draw(app)
    /\ pc' = "poll"
    /\ Plain

NextOver(L) ==
    \/ FirstDraw
    \/ Advance
    \/ Timeout
    \/ \E line \in L : KeyChars(line)
    \/ KeyBackspace
    \/ KeyUp
    \/ KeyDown
    \/ KeyPageUp
    \/ KeyPageDown
    \/ KeyOther
    \/ KeyEsc
    \/ \E save_ok \in BOOLEAN : KeyEnter(save_ok)
    \/ \E wire \in session.wires, save_ok \in BOOLEAN : Resolve(wire, save_ok)
    \/ TickDue
    \/ TickNotDue

Next == NextOver(session.lines)

Spec == Init /\ [][Next]_vars

(***************************************************************************)
(* A session in which the user types near misses of the commands: another  *)
(* letter case, text after the command, a prefix of a command, blanks      *)
(* before or after it.                                                     *)
(***************************************************************************)
StatsUpper == << "/", "S", "T", "A", "T", "S" >>

StatsExtra == CmdStats \o << " ", "n", "o", "w" >>

StatsPrefix == << "/", "s", "t", "a" >>

StatsTrailing == CmdStats \o << " " >>

StatsLeading == << " " >> \o CmdStats

PurgeLeading == << " " >> \o CmdPurge

ExitLeading == << " " >> \o CmdExit \o << " " >>

ExitUpper == << "/", "E", "x", "i", "t" >>

DispatchLines ==
    {CmdExit, CmdStats, CmdClear, CmdPurge, CmdHelp, StatsUpper, StatsExtra,
     StatsPrefix, StatsTrailing, StatsLeading, PurgeLeading, ExitLeading,
     ExitUpper}

\* One failing and one answering round trip.
TwoWires ==
    {[kind |-> "send_failed", text |-> << >>], [kind |-> "text", text |-> Purr]}

InitDispatch ==
    InitOf("main", [limit |-> MaxEnters, lines |-> DispatchLines, wires |-> TwoWires],
           {NoRecord, Stored(LoadedRecord)}, {<< >>}, Providers)

SpecDispatch == InitDispatch /\ [][Next]_vars

(***************************************************************************)
(* A session started with a shell history file, in which the user enters   *)
(* a '$' line.  The file has a zsh line, lines of several words and a      *)
(* blank line; the sessions start with none, with the first five or with   *)
(* all of its lines.                                                       *)
(***************************************************************************)
ShellFile ==
    << << ":", " ", "1", ":", "0", ";", "l", "s" >>,
       << "c", "d" >>,
       << " " >>,
       << "g", "i", "t", " ", "s", "t" >>,
       << "p", "w", "d" >>,
       << "v", "i" >>,
       << "m", "a", "k", "e" >> >>

ShellFiles == {<< >>, SubSeq(ShellFile, 1, 5), SubSeq(ShellFile, 1, 6), ShellFile}

DollarLs == << "$", " ", "l", "s", " " >>

InitShell ==
    InitOf("main", [limit |-> MaxEnters, lines |-> {DollarLs, Hi}, wires |-> TwoWires],
           {NoRecord}, ShellFiles, Providers)

SpecShell == InitShell /\ [][Next]_vars

(***************************************************************************)
(* A session started from a stored record with a long chat history, whose  *)
(* exchanges are numbered, in which the user chats.                        *)
(***************************************************************************)
NumberedReply(i) == Purr \o << " " >> \o Decimal(i)

LongRecord(n) ==
    [ name             |-> DefaultName,
      mood             |-> F32_0_8,
      last_interaction |-> 0,
      chat_history     |-> [i \in 1..n |-> << Decimal(i), NumberedReply(i) >>] ]

InitScroll ==
    InitOf("main", [limit |-> MaxEnters, lines |-> {Hi, Treat}, wires |-> TwoWires],
           {Stored(LongRecord(NearCapExchanges)), Stored(LongRecord(LoadedExchanges))},
           {<< >>}, Providers)

SpecScroll == InitScroll /\ [][Next]_vars

(***************************************************************************)
(* A session with the Ollama backend long enough to fill its context: the  *)
(* user enters "hi" ContextTurns times, and the backend answers one of two *)
(* texts.                                                                  *)
(***************************************************************************)
Mew == << "M", "e", "w" >>

ContextWires == {[kind |-> "text", text |-> Purr], [kind |-> "text", text |-> Mew]}

InitContext ==
    InitOf("main", [limit |-> ContextTurns, lines |-> {Hi}, wires |-> ContextWires],
           {NoRecord}, {<< >>}, {"Ollama"})

SpecContext == InitContext /\ [][Next]_vars

(***************************************************************************)
(* The steps the properties speak of.                                      *)
(***************************************************************************)
(* A session whose texts need the escapes of the stored document: the user *)
(* types a line with a quote and a backslash, or purges, and the backend   *)
(* fails or answers a text with a quote, a newline and a backslash.        *)
(***************************************************************************)
Quoted == << "a", Quote, Backslash, "n" >>

Broken == << Quote, "\n", Backslash >>

StoreWires == {[kind |-> "send_failed", text |-> << >>], [kind |-> "text", text |-> Broken]}

QuotedRecord ==
    [ name             |-> DefaultName,
      mood             |-> F32_0_4,
      last_interaction |-> 0,
      chat_history     |-> << << Quoted, Broken >>, << Hi, Purr >> >> ]

InitStore ==
    InitOf("main", [limit |-> MaxEnters, lines |-> {Hi, Quoted, CmdPurge},
                    wires |-> StoreWires],
           {NoRecord, Stored(LoadedRecord), Stored(QuotedRecord)}, {<< >>}, Providers)

SpecStore == InitStore /\ [][Next]_vars

(***************************************************************************)
(* A session of several turns with the Ollama backend: the user chats,     *)
(* enters a '$' line, purges or clears, and the backend fails or answers,  *)
(* so that a line may follow an answered turn, a fallback, a capture, a    *)
(* purge or a clear.                                                       *)
(***************************************************************************)
InitTurns ==
    InitOf("main", [limit |-> SessionTurns, lines |-> {Hi, DollarLs, CmdPurge, CmdClear},
                    wires |-> TwoWires],
           {NoRecord, Stored(LoadedRecord)}, {<< >>}, {"Ollama"})

SpecTurns == InitTurns /\ [][Next]_vars

(***************************************************************************)
(* Sessions begun on what a user's files may hold.  config.toml is         *)
(* missing, names a provider that does not exist, holds the pet's name and *)
(* nothing else, or is a full configuration of a pet called Tom with the   *)
(* Ollama backend; the stored record is missing, has a timestamp that does *)
(* not parse, carries a mood of 1.5 or of 0.0, or is the record of an      *)
(* earlier session.                                                        *)
(***************************************************************************)
Tom == << "T", "o", "m" >>

UnknownProviderFile ==
    FileOf([ConfigDocument(Config_default)
               EXCEPT !.llm_provider = toml_string(<< "L", "l", "a", "m", "a" >>)])

NameOnlyFile == FileOf([pet_name |-> toml_string(Tom)])

TomFile ==
    FileOf(ConfigDocument([Config_default EXCEPT !.pet_name = Tom,
                                                 !.llm_provider = "Ollama"]))

ConfigFiles == {NoFile, UnknownProviderFile, NameOnlyFile, TomFile}

BadTimeRecord ==
    [Stored(LoadedRecord) EXCEPT !.last_interaction = << "n", "o", "w" >>]

HighMoodRecord == Stored([LoadedRecord EXCEPT !.mood = F32_1_0 + F32_1_0 \div 2])

ZeroMoodRecord == Stored([LoadedRecord EXCEPT !.mood = 0])

FoundRecords ==
    {NoRecord, BadTimeRecord, HighMoodRecord, ZeroMoodRecord, Stored(LoadedRecord)}

InitStartup ==
    InitWith("main", [limit |-> MaxEnters, lines |-> {Hi, CmdStats}, wires |-> TwoWires],
             FoundRecords, {<< >>}, ConfigFiles)

SpecStartup == InitStartup /\ [][Next]_vars

(***************************************************************************)
(* A session started on a full scrollback (the stored record has more      *)
(* exchanges than the buffer holds lines), in which the user chats, clears *)
(* or purges.                                                              *)
(***************************************************************************)
InitFull ==
    InitOf("main", [limit |-> MaxEnters, lines |-> {Hi, CmdClear, CmdPurge},
                    wires |-> TwoWires],
           {Stored(LongRecord(LoadedExchanges))}, {<< >>}, Providers)

SpecFull == InitFull /\ [][Next]_vars

(***************************************************************************)
(* A session at the keys of the scrollback: the user chats, clears or      *)
(* purges, and scrolls, on the welcome alone or on a stored conversation.  *)
(***************************************************************************)
InitKeys ==
    InitOf("main", [limit |-> MaxEnters, lines |-> {Hi, CmdClear, CmdPurge},
                    wires |-> TwoWires],
           {NoRecord, Stored(LoadedRecord)}, {<< >>}, {"OpenAI"})

SpecKeys == InitKeys /\ [][Next]_vars

(***************************************************************************)
(* A session of the other engine, App of app.rs driven by Terminal::run,   *)
(* in which the user chats or enters "/exit".                              *)
(***************************************************************************)
InitApp ==
    InitOf("app", [limit |-> MaxEnters, lines |-> {Hi, CmdExit, ExitLeading},
                   wires |-> TwoWires],
           {NoRecord, Stored(LoadedRecord)}, {<< >>}, Providers)

SpecApp == InitApp /\ [][Next]_vars

(***************************************************************************)
Last(seq) == seq[Len(seq)]

\* Enter is handled on the line the input holds.
EnterStep == \E save_ok \in BOOLEAN : KeyEnter(save_ok)

\* The awaited request resolves to a failure, or to a success.
FailedStep ==
    \E wire \in Wires, save_ok \in BOOLEAN :
        /\ ~generate_response(wire).ok
        /\ Resolve(wire, save_ok)

SucceededStep(text) ==
    \E wire \in Wires, save_ok \in BOOLEAN :
        /\ generate_response(wire) = [ok |-> TRUE, text |-> text]
        /\ Resolve(wire, save_ok)

SaysTreat(text) == contains(to_lowercase(text), TreatWord)

SaysPlay(text) == contains(to_lowercase(text), PlayWord)

\* f32: min(m + d, 1.0)
Boosted(m, d) == F32Min(F32Add(m, d), F32_1_0)

(***************************************************************************)
(* C1.  Starting from a mood in [0.1, 1.0], the mood is within [0.1, 1.0]  *)
(* after any sequence of ticks, chat turns (successful or fallback, with   *)
(* the treat and play boosts) and control commands.                        *)
(***************************************************************************)
C1_MoodInRange ==
    /\ app.state.mood >= F32_0_1
    /\ app.state.mood <= F32_1_0

\* A fallback turn with a treat has run into the cap of the clamp.
C1_Witness ==
    /\ app.state.chat_history # << >>
    /\ Last(app.state.chat_history) = << Treat, TreatReply >>
    /\ app.state.mood = F32_1_0

(***************************************************************************)
(* C2.  Decay does not compound: the tick decay applied again at the same  *)
(* current time, with no interaction in between, leaves the mood as the    *)
(* first application left it.                                              *)
(***************************************************************************)
C2_DecayIdempotent ==
    [][(Timeout \/ TickDue) => update(app'.state, now').mood = app'.state.mood]_vars

Band(mood) ==
    IF mood > F32_0_8 THEN ContentReply
    ELSE IF mood > F32_0_4 THEN CuriousReply
    ELSE DistantReply

Neutral(text) == ~SaysTreat(text) /\ ~SaysPlay(text)

ResolveStep == \E wire \in Wires, save_ok \in BOOLEAN : Resolve(wire, save_ok)

(***************************************************************************)
(* C6.  A chat turn whose generation succeeds sets last_interaction to the *)
(* time it reads as it begins, sets the mood to min(m + 0.1, 1.0), m the   *)
(* mood before the turn, appends exactly the pair (user text, response) to *)
(* the end of chat_history, and saves the state: the save is attempted,    *)
(* and when it succeeds the stored record is the new state.                *)
(***************************************************************************)
C6_SuccessfulTurn ==
    [][\A wire \in Wires :
          (/\ generate_response(wire).ok
           /\ \E save_ok \in BOOLEAN : Resolve(wire, save_ok)) =>
             /\ app'.state.last_interaction = before.at
             /\ app'.state.mood = Boosted(before.state.mood, F32_0_1)
             /\ app'.state.chat_history =
                   Append(before.state.chat_history,
                          << pending.user_message, generate_response(wire).text >>)
             /\ app'.state.name = before.state.name
             /\ save_result' \in {"ok", "err"}
             /\ save_result' = "ok" => disk' = Stored(app'.state)
             /\ save_result' = "err" => disk' = disk]_vars

\* A first turn at the default mood 0.8 that the backend answered, saved.
C6_Witness ==
    /\ pc = "tick"
    /\ save_result = "ok"
    /\ app.state.chat_history = << << Hi, Purr >> >>
    /\ app.state.mood = Boosted(F32_0_8, F32_0_1)
    /\ disk = Stored(app.state)

\* The texts handle_input treats as control commands.
ControlCommands == {CmdStats, CmdClear, CmdPurge, CmdHelp, CmdExit}

\* Enter on a line whose trimmed text is the command cmd.
CommandStep(cmd) ==
    /\ starts_with(app.ui.input, << "/" >>)
    /\ trim(app.ui.input) = cmd
    /\ EnterStep

(***************************************************************************)
(* C7.  As stated: after "/purge" is handled chat_history is empty and the *)
(* scrollback buffer is empty, and mood and name are as before.            *)
(***************************************************************************)
C7_Original ==
    [][CommandStep(CmdPurge) =>
        /\ app'.state.chat_history = << >>
        /\ app'.ui.messages = << >>
        /\ app'.state.mood = app.state.mood
        /\ app'.state.name = app.state.name]_vars

(***************************************************************************)
(* C7, amended.  After "/purge" is handled chat_history is empty and the   *)
(* scrollback buffer holds the purge notice and nothing else; mood and     *)
(* name are as before.                                                     *)
(***************************************************************************)
C7_PurgeLeavesNotice ==
    [][CommandStep(CmdPurge) =>
        /\ app'.state.chat_history = << >>
        /\ app'.ui.messages = << PurgedText >>
        /\ app'.state.mood = app.state.mood
        /\ app'.state.name = app.state.name]_vars

\* "/purge" handled on the loaded record, which had an exchange in it.
C7_Witness ==
    /\ save_result = "ok"
    /\ app.ui.messages = << PurgedText >>
    /\ app.state = [LoadedRecord EXCEPT !.chat_history = << >>]
    /\ disk = Stored(app.state)

\* "Mood: <percentage>%" and "Chat History: <count> messages" as displayed.
MoodShown(st) ==
    << "M", "o", "o", "d", ":", " " >> \o Decimal(PercentOf(st.mood)) \o << "%" >>

CountShown(st) ==
    << "C", "h", "a", "t", " ", "H", "i", "s", "t", "o", "r", "y", ":", " " >>
    \o Decimal(Len(st.chat_history))
    \o << " ", "m", "e", "s", "s", "a", "g", "e", "s" >>

(***************************************************************************)
(* C8.  "/stats" changes no pet state: mood, name, last_interaction and    *)
(* chat_history are as before, no save is performed, and what it adds is   *)
(* display lines, the echo of the input and a message showing the mood     *)
(* percentage and the history count.                                       *)
(***************************************************************************)
C8_StatsDisplayOnly ==
    [][CommandStep(CmdStats) =>
        /\ app'.state = app.state
        /\ app'.llm = app.llm
        /\ app'.recent_commands = app.recent_commands
        /\ disk' = disk
        /\ save_result' = "none"
        /\ pc' = "tick"
        /\ pending' = NoRequest
        /\ Len(app'.ui.messages) >= 2
        /\ app'.ui.messages[Len(app'.ui.messages) - 1] = YouSay(app.ui.input)
        /\ starts_with(Last(app'.ui.messages), app.state.name)
        /\ contains(Last(app'.ui.messages), MoodShown(app.state))
        /\ contains(Last(app'.ui.messages), CountShown(app.state))]_vars

\* "/stats" handled with one exchange in the history.
C8_Witness ==
    /\ pc = "tick"
    /\ Len(app.state.chat_history) = 1
    /\ app.ui.messages # << >>
    /\ contains(Last(app.ui.messages), CountShown(app.state))
    /\ contains(Last(app.ui.messages), MoodShown(app.state))

(***************************************************************************)
(* C9.  An input that starts with '/' and whose trimmed text is none of    *)
(* the five commands is handled as chat: one generation is requested with  *)
(* the text as typed, the +0.1 and the last_interaction update are         *)
(* applied, the pair (input, reply) is appended to chat_history, and the   *)
(* turn raises no error of its own (the save alone can fail).              *)
(***************************************************************************)
C9_UnknownSlashIsChat ==
    [][/\ (/\ starts_with(app.ui.input, << "/" >>)
           /\ trim(app.ui.input) \notin ControlCommands
           /\ EnterStep) =>
              /\ pc' = "await"
              /\ pending' = [ user_message |-> app.ui.input,
                              prompt |-> format_prompt(app.llm, app.ui.input,
                                                       app.recent_commands),
                              outstanding |-> TRUE ]
              /\ app'.state.mood = Boosted(app.state.mood, F32_0_1)
              /\ app'.state.last_interaction = now
              /\ save_result' = "none"
       /\ (/\ starts_with(pending.user_message, << "/" >>)
           /\ ResolveStep) =>
              /\ Len(app'.state.chat_history) = Len(before.state.chat_history) + 1
              /\ Last(app'.state.chat_history)[1] = pending.user_message
              /\ Last(app'.ui.messages) =
                    Says(app.state.name, Last(app'.state.chat_history)[2])
              /\ pc' = "error" => save_result' = "err"]_vars

\* "/x" was answered by the backend and recorded as an exchange.
C9_Witness ==
    /\ pc = "tick"
    /\ app.state.chat_history # << >>
    /\ Last(app.state.chat_history) = << Bogus, Purr >>

(***************************************************************************)
(* C10.  Handling a recognised control command ("/stats", "/clear",        *)
(* "/purge", "/help", "/exit") requests no generation, appends nothing to  *)
(* chat_history or to the context of the backend, and changes neither the  *)
(* mood nor last_interaction.                                              *)
(***************************************************************************)
C10_CommandsShortCircuit ==
    [][\A cmd \in ControlCommands :
          CommandStep(cmd) =>
             /\ pc' # "await"
             /\ pending' = NoRequest
             /\ app'.llm = app.llm
             /\ app'.state.mood = app.state.mood
             /\ app'.state.last_interaction = app.state.last_interaction
             /\ app'.state.chat_history =
                   IF cmd = CmdPurge THEN << >> ELSE app.state.chat_history]_vars

\* "/help" handled with an exchange in the history.
C10_Witness ==
    /\ pc = "tick"
    /\ app.ui.messages # << >>
    /\ Last(app.ui.messages) = Says(app.state.name, HelpText)
    /\ app.state.chat_history # << >>

\* Enter on a non-empty line.
LineStep == app.ui.input # << >> /\ EnterStep

\* The step ran the arm of the command cmd: no request is made and the
\* scrollback ends with what that arm shows ("/exit" also ends the session).
ExecutedAs(cmd) ==
    /\ pc' # "await"
    /\ pending' = NoRequest
    /\ app'.ui.messages # << >>
    /\ Last(app'.ui.messages) =
          IF cmd = CmdExit THEN Says(app.state.name, GoodbyeText)
          ELSE IF cmd = CmdStats THEN Says(app.state.name, stats_text(app.state))
          ELSE IF cmd = CmdClear THEN ClearedText
          ELSE IF cmd = CmdPurge THEN PurgedText
          ELSE Says(app.state.name, HelpText)
    /\ cmd = CmdExit => pc' \in {"exit0", "error"}

\* The step took the line for chat: the echo is shown and the request made.
HandledAsChat ==
    /\ pc' = "await"
    /\ pending'.outstanding
    /\ pending'.user_message = app.ui.input
    /\ Last(app'.ui.messages) = YouSay(app.ui.input)

(***************************************************************************)
(* C11.  As stated: a line is handled as a control command only if its     *)
(* trimmed text is exactly, case-sensitively, one of the five commands,    *)
(* any other line being taken for chat; and every line whose trimmed text  *)
(* is one of the five commands is executed as that command.                *)
(***************************************************************************)
C11_Original ==
    [][LineStep =>
        /\ trim(app.ui.input) \notin ControlCommands => HandledAsChat
        /\ \A cmd \in ControlCommands :
              trim(app.ui.input) = cmd => ExecutedAs(cmd)]_vars

(***************************************************************************)
(* C11, amended.  A line is handled as a control command only if its       *)
(* trimmed text is exactly, case-sensitively, one of the five commands,    *)
(* any other line being taken for chat.  A line whose trimmed text is      *)
(* "/exit" is executed as "/exit"; a line whose trimmed text is one of     *)
(* the other four is executed as that command when it starts with '/',     *)
(* and is taken for chat when blanks come before the '/'.                  *)
(***************************************************************************)
C11_ExactDispatch ==
    [][LineStep =>
        /\ trim(app.ui.input) \notin ControlCommands => HandledAsChat
        /\ trim(app.ui.input) = CmdExit => ExecutedAs(CmdExit)
        /\ \A cmd \in ControlCommands \ {CmdExit} :
              trim(app.ui.input) = cmd =>
                 IF starts_with(app.ui.input, << "/" >>)
                 THEN ExecutedAs(cmd)
                 ELSE HandledAsChat]_vars

\* " /stats" was taken for chat and answered by the backend.
C11_Witness ==
    /\ pc = "tick"
    /\ app.state.chat_history # << >>
    /\ Last(app.state.chat_history) = << StatsLeading, Purr >>

\* How the process ends after "/exit": by process::exit(0), or by the error
\* of the save returned out of main.
Ended == {"exit0", "error"}

(***************************************************************************)
(* C12.  When the trimmed input is "/exit" the farewell line is appended,  *)
(* the state is saved, and the session then ends: the save comes before    *)
(* the end, and once the process has ended no input line, key event or     *)
(* tick is processed.                                                      *)
(***************************************************************************)
C12_ExitTerminates ==
    [][/\ pc \notin Ended
       /\ (LineStep /\ trim(app.ui.input) = CmdExit) =>
             /\ Last(app'.ui.messages) = Says(app.state.name, GoodbyeText)
             /\ app'.state = app.state
             /\ save_result' \in {"ok", "err"}
             /\ save_result' = "ok" => disk' = Stored(app'.state) /\ pc' = "exit0"
             /\ save_result' = "err" => disk' = disk /\ pc' = "error"]_vars

\* "/exit" was handled: the farewell is the last message, the record stored is
\* the state, and the process has exited.
C12_Witness ==
    /\ pc = "exit0"
    /\ save_result = "ok"
    /\ disk = Stored(app.state)
    /\ Last(app.ui.messages) = Says(app.state.name, GoodbyeText)

\* The phrases of the fallback.
FallbackPhrases ==
    {TreatReply, PlayReply, ContentReply, CuriousReply, DistantReply}

(***************************************************************************)
(* C16.  A failure of the backend during a chat turn (transport, a status  *)
(* that is not success, an unreadable or malformed body) does not end the  *)
(* turn in an error and is not retried: the one request is over, exactly   *)
(* one reply line, a phrase of the fallback, is appended to the            *)
(* scrollback, the pair (input, that phrase) is recorded in chat_history,  *)
(* the context of the backend is left alone, and the loop goes on to its   *)
(* tick (the save of the turn succeeding).                                 *)
(***************************************************************************)
C16_FailureFallsBack ==
    [][\A wire \in Wires :
          (/\ wire.kind \in WireFailures
           /\ \E save_ok \in BOOLEAN : Resolve(wire, save_ok)) =>
             /\ Len(app'.state.chat_history) = Len(app.state.chat_history) + 1
             /\ SubSeq(app'.state.chat_history, 1, Len(app.state.chat_history))
                   = app.state.chat_history
             /\ Last(app'.state.chat_history)[1] = pending.user_message
             /\ Last(app'.state.chat_history)[2] \in FallbackPhrases
             /\ app'.ui.messages =
                   Append(app.ui.messages,
                          Says(app.state.name, Last(app'.state.chat_history)[2]))
             /\ app'.llm = app.llm
             /\ pending' = NoRequest
             /\ pc' # "await"
             /\ save_result' = "ok" => pc' = "tick"]_vars

\* The backend failed; the turn was answered by the fallback and the loop
\* is at its tick.
C16_Witness ==
    /\ pc = "tick"
    /\ save_result = "ok"
    /\ app.state.chat_history = << << Hi, ContentReply >> >>
    /\ Last(app.ui.messages) = Says(app.state.name, ContentReply)
    /\ app.llm.conversation_history = << >>

(***************************************************************************)
(* C17.  A failure to save the state, during a chat turn or "/purge", does *)
(* not halt the session: the in-memory PetState keeps the result of the    *)
(* turn and the loop goes on to its tick, to process later input.          *)
(***************************************************************************)
C17_SaveFailureGoesOn ==
    [][(/\ ResolveStep \/ CommandStep(CmdPurge)
        /\ save_result' = "err") =>
           /\ pc' = "tick"
           /\ ResolveStep =>
                 Len(app'.state.chat_history) = Len(app.state.chat_history) + 1
           /\ CommandStep(CmdPurge) => app'.state.chat_history = << >>]_vars

(***************************************************************************)
(* C18.  When the session is ended with Esc the state is flushed before    *)
(* the end: when the loop has ended, the stored record is the in-memory    *)
(* PetState.                                                               *)
(***************************************************************************)
C18_EscFlushes == pc = "esc" => disk = Stored(app.state)

(***************************************************************************)
(* C19.  chat_history changes in two ways only: a chat turn, when its      *)
(* response has been produced, appends exactly one pair (user text,        *)
(* response), the response being the reply shown; and "/purge" empties     *)
(* it.  No other step changes it.                                          *)
(***************************************************************************)
C19_HistoryChanges ==
    [][app'.state.chat_history # app.state.chat_history =>
          \/ /\ ResolveStep
             /\ Len(app'.state.chat_history) = Len(app.state.chat_history) + 1
             /\ SubSeq(app'.state.chat_history, 1, Len(app.state.chat_history))
                   = app.state.chat_history
             /\ Len(Last(app'.state.chat_history)) = 2
             /\ Last(app'.state.chat_history)[1] = pending.user_message
             /\ Last(app'.ui.messages) =
                   Says(app.state.name, Last(app'.state.chat_history)[2])
          \/ /\ CommandStep(CmdPurge)
             /\ app'.state.chat_history = << >>]_vars

\* A turn was appended to the loaded history.
C19_Witness ==
    /\ pc = "tick"
    /\ Len(app.state.chat_history) = 2
    /\ app.state.chat_history[1] = << Hi, Purr >>
    /\ app.state.chat_history[2] = << Play, Purr >>

(***************************************************************************)
(* C20.  At most one generation request is outstanding; while it is, no    *)
(* input line, key event or tick is processed (the clock alone moves)      *)
(* until it resolves; the request is made by Enter on a chat line, once,   *)
(* and chat_history and the reply in the scrollback change only by the     *)
(* step that resolves it, which leaves no request outstanding.             *)
(***************************************************************************)
C20_OneRequestBlocks ==
    [][/\ pending.outstanding <=> pc = "await"
       /\ pending.outstanding =>
             \/ ResolveStep /\ pending' = NoRequest /\ pc' # "await"
             \/ app' = app /\ pending' = pending /\ pc' = pc /\ disk' = disk
       /\ (~pending.outstanding /\ pending'.outstanding) =>
             /\ LineStep
             /\ pending'.user_message = app.ui.input
             /\ app'.state.chat_history = app.state.chat_history
             /\ app'.ui.messages = Append(app.ui.messages, YouSay(app.ui.input))]_vars

\* The request is outstanding and the clock has moved while it is awaited.
C20_Witness ==
    /\ pc = "await"
    /\ pending.outstanding
    /\ before.in_turn
    /\ now > before.at

\* The last n entries of seq, in order.
LastN(n, seq) ==
    IF Len(seq) <= n THEN seq ELSE SubSeq(seq, Len(seq) - n + 1, Len(seq))

(***************************************************************************)
(* C14.  The recent-commands list never holds more than 5 entries after a  *)
(* '$' line is captured, whatever was loaded from the shell history: the   *)
(* capture adds the text after the marker, trimmed, and the list is then   *)
(* the last 5 of what it held and the new entry.                           *)
(***************************************************************************)
C14_RecentCommandsCapped ==
    [][(LineStep /\ starts_with(app.ui.input, << "$" >>)) =>
          /\ Len(app'.recent_commands) <= RECENT_LIMIT
          /\ app'.recent_commands =
                LastN(RECENT_LIMIT,
                      Append(app.recent_commands,
                             trim(strip_prefix(app.ui.input, << "$" >>))))]_vars

\* The exchanges of the chat history that the backend answered.
Answered(exchange) == exchange[2] \notin FallbackPhrases

(***************************************************************************)
(* C15.  The context of the Ollama backend never holds more than 5         *)
(* exchanges, and it is the last min(5, n) of the n exchanges added to it, *)
(* in the order added.  (In a session begun without a stored record and    *)
(* without "/purge" the exchanges added are the exchanges of chat_history  *)
(* that the backend answered.)                                             *)
(***************************************************************************)
C15_ContextIsLastFive ==
    app.llm.provider = "Ollama" =>
        /\ Len(app.llm.conversation_history) <= CONTEXT_LIMIT
        /\ app.llm.conversation_history =
              LastN(CONTEXT_LIMIT, SelectSeq(app.state.chat_history, Answered))

\* Six exchanges were added, the first answered differently from the rest; the
\* context holds the last five.
C15_Witness ==
    /\ Len(SelectSeq(app.state.chat_history, Answered)) = CONTEXT_LIMIT + 1
    /\ app.state.chat_history[1] = << Hi, Mew >>
    /\ Len(app.llm.conversation_history) = CONTEXT_LIMIT
    /\ \A i \in 1..CONTEXT_LIMIT : app.llm.conversation_history[i] = << Hi, Purr >>

\* The display lines of the exchanges of a chat history, in order.
RECURSIVE DisplayLines(_, _)
DisplayLines(name, history) ==
    IF history = << >> THEN << >>
    ELSE IF Len(history) = 1
    THEN << YouSay(history[1][1]), Says(name, history[1][2]) >>
    ELSE LET half == Len(history) \div 2
         IN  DisplayLines(name, SubSeq(history, 1, half))
             \o DisplayLines(name, SubSeq(history, half + 1, Len(history)))

\* The lines appended to the scrollback since it was created, in a session of
\* chat turns: the welcome, the lines of the exchanges loaded and made, and the
\* echo of the turn in progress.
AppendedLines ==
    << WelcomeText >>
    \o DisplayLines(app.state.name, app.state.chat_history)
    \o (IF pc = "await" THEN << YouSay(pending.user_message) >> ELSE << >>)

(***************************************************************************)
(* C13.  The scrollback never holds more than 100 entries, and it is the   *)
(* last min(100, n) of the n lines appended to it, in the order appended   *)
(* (the oldest evicted first); after 120 exchanges its length is 100 and   *)
(* neither display line of the first exchange is in it.                    *)
(***************************************************************************)
C13_ScrollbackIsLastHundred ==
    /\ Len(app.ui.messages) <= MAX_MESSAGES
    /\ app.ui.messages = LastN(MAX_MESSAGES, AppendedLines)
    /\ Len(app.state.chat_history) >= 120 =>
          /\ Len(app.ui.messages) = MAX_MESSAGES
          /\ \A i \in 1..Len(app.ui.messages) :
                app.ui.messages[i] \notin
                   {YouSay(app.state.chat_history[1][1]),
                    Says(app.state.name, app.state.chat_history[1][2])}

\* The 120th exchange has been made: the scrollback holds 100 lines, the last
\* the reply of that exchange, and its first line belongs to exchange 71.
C13_Witness ==
    /\ pc = "tick"
    /\ Len(app.state.chat_history) = LoadedExchanges + 1
    /\ Len(app.ui.messages) = MAX_MESSAGES
    /\ app.ui.messages[1] = YouSay(Decimal(LoadedExchanges + 1 - 49))
    /\ Last(app.ui.messages) \in {Says(app.state.name, Purr),
                                  Says(app.state.name, ContentReply)}

(***************************************************************************)
(* C21.  Decay never raises the mood: a tick (with no chat turn in it)     *)
(* leaves the mood no greater than it found it, and from the same state a  *)
(* decay computed with one more hour elapsed gives a mood no greater, for  *)
(* every number of hours (so the mood computed is non-increasing in the    *)
(* hours elapsed).                                                         *)
(***************************************************************************)
DecayedAfter(st, hours) == update(st, st.last_interaction + hours * StepsPerHour).mood

C21_DecayMonotone ==
    [][(Timeout \/ TickDue) =>
          /\ app'.state.mood <= app.state.mood
          /\ \A hours \in 0 .. DecayHours :
                DecayedAfter(app.state, hours + 1) <= DecayedAfter(app.state, hours)]_vars

\* A tick has lowered the mood: an hour after the stored interaction the mood
\* of 0.5 stands at 0.5 - 0.1, and nothing was entered.
C21_Witness ==
    /\ enters = 0
    /\ pc = "poll"
    /\ app.state.last_interaction = 0
    /\ app.state.chat_history = << << Hi, Purr >> >>
    /\ now >= StepsPerHour
    /\ app.state.mood = F32Sub(F32_1_0 \div 2, F32_0_1)

(***************************************************************************)
(* C22.  The scroll cursor stays within [0, total line count] of the       *)
(* scrollback through appends, /clear, /purge and scrolling; scroll_up at  *)
(* 0 and scroll_down at the total leave it where it is, and from any other *)
(* position each moves it by exactly one and leaves the messages alone.    *)
(***************************************************************************)
CursorInRange(ui) ==
    /\ ui.scroll_offset >= 0
    /\ ui.scroll_offset <= total_lines(ui.messages)

CursorAt(ui, offset) == [ui EXCEPT !.scroll_offset = offset]

\* The cursor positions tried on a buffer: both ends, their neighbours and
\* the position the cursor has.
ProbeOffsets(ui) ==
    {0, 1, ui.scroll_offset, total_lines(ui.messages) - 1, total_lines(ui.messages)}
    \cap (0 .. total_lines(ui.messages))

C22_CursorClamped ==
    [][/\ CursorInRange(app.ui)
       /\ CursorInRange(app'.ui)
       /\ KeyUp =>
             app'.ui = CursorAt(app.ui, IF app.ui.scroll_offset = 0 THEN 0
                                        ELSE app.ui.scroll_offset - 1)
       /\ KeyDown =>
             app'.ui = CursorAt(app.ui,
                                IF app.ui.scroll_offset = total_lines(app.ui.messages)
                                THEN app.ui.scroll_offset
                                ELSE app.ui.scroll_offset + 1)
       /\ pc = "poll" =>
             \A offset \in ProbeOffsets(app.ui) :
                /\ scroll_up(CursorAt(app.ui, offset)) =
                       CursorAt(app.ui, IF offset = 0 THEN 0 ELSE offset - 1)
                /\ scroll_down(CursorAt(app.ui, offset)) =
                       CursorAt(app.ui, IF offset = total_lines(app.ui.messages)
                                        THEN offset ELSE offset + 1)]_vars

\* Page Down on the loaded conversation: the frame left the cursor at 2 of 5
\* lines, and the five scroll_down calls stopped at 5.
C22_Witness ==
    /\ enters = 0
    /\ pc = "tick"
    /\ app.ui.input = << >>
    /\ Len(app.ui.messages) = 3
    /\ total_lines(app.ui.messages) = 5
    /\ app.ui.scroll_offset = 5

(***************************************************************************)
(* C23.  After a chat turn or a /purge whose save succeeded, the record on *)
(* disk is the document of the PetState in memory, and loading it gives    *)
(* back that PetState: the same name, mood, last_interaction and           *)
(* chat_history, pair for pair in the same order.                          *)
(***************************************************************************)
C23_SaveLoadRoundTrip ==
    [][save_result' = "ok" =>
          /\ record_ok(disk')
          /\ parse_toml_string(disk'.name) = app'.state.name
          /\ load_state(disk', now') = app'.state
          /\ App_new(load_state(disk', now'), app'.state.name, app'.llm.provider,
                     << >>).state = app'.state]_vars

\* A turn made half an hour into the session was saved: the line typed holds a
\* quote and a backslash, the reply a quote, a newline and a backslash.
C23_Witness ==
    /\ save_result = "ok"
    /\ app.state.chat_history # << >>
    /\ Last(app.state.chat_history) = << Quoted, Broken >>
    /\ app.state.last_interaction % StepsPerHour # 0
    /\ disk.exists

(***************************************************************************)
(* C24.  When the backend fails, the reply and the mood the turn leaves    *)
(* are a function of the text entered and the mood before the turn alone:  *)
(* whatever chat_history, the scrollback, the context of the backend and   *)
(* the recent commands hold, the outcome is the one FallbackOutcome gives  *)
(* the text and that mood.                                                 *)
(***************************************************************************)
FallbackOutcome(text, m) ==
    LET lifted == Boosted(m, F32_0_1)
    IN  IF SaysTreat(text)
        THEN [reply |-> TreatReply, mood |-> Boosted(lifted, F32_0_2)]
        ELSE IF SaysPlay(text)
        THEN [reply |-> PlayReply, mood |-> Boosted(lifted, F32_0_15)]
        ELSE [reply |-> Band(lifted), mood |-> lifted]

C24_FallbackIsFunction ==
    [][\A wire \in session.wires :
          (/\ wire.kind \in WireFailures
           /\ \E save_ok \in BOOLEAN : Resolve(wire, save_ok)) =>
             /\ Last(app'.state.chat_history)[2] =
                   FallbackOutcome(pending.user_message, before.state.mood).reply
             /\ app'.state.mood =
                   FallbackOutcome(pending.user_message, before.state.mood).mood]_vars

\* The backend failed on "hi" after it had answered a turn: the context holds
\* that turn, the history three exchanges, and the reply is the curious one.
C24_Witness ==
    /\ pc = "tick"
    /\ enters = 2
    /\ Len(app.llm.conversation_history) = 1
    /\ Len(app.state.chat_history) = 3
    /\ Last(app.state.chat_history) = << Hi, CuriousReply >>

(***************************************************************************)
(* C25.  As stated: after "/clear" is handled the scrollback buffer is     *)
(* empty, and chat_history, mood, name, last_interaction and the persisted *)
(* record are as before.                                                   *)
(***************************************************************************)
C25_Original ==
    [][CommandStep(CmdClear) =>
        /\ app'.ui.messages = << >>
        /\ app'.state = app.state
        /\ disk' = disk]_vars

(***************************************************************************)
(* C25, amended.  After "/clear" is handled the scrollback buffer holds    *)
(* the notice "Chat window cleared." and nothing else; chat_history, mood, *)
(* name, last_interaction and the persisted record are as before, and no   *)
(* save is made.                                                           *)
(***************************************************************************)
C25_ClearLeavesNotice ==
    [][CommandStep(CmdClear) =>
        /\ app'.ui.messages = << ClearedText >>
        /\ app'.state = app.state
        /\ disk' = disk
        /\ save_result' = "none"]_vars

\* "/clear" handled on the loaded record: three lines gave way to the notice,
\* the exchange is still in chat_history and in the record.
C25_Witness ==
    /\ pc = "tick"
    /\ enters = 1
    /\ app.ui.messages = << ClearedText >>
    /\ app.state.chat_history = << << Hi, Purr >> >>
    /\ disk = Stored(LoadedRecord)

(***************************************************************************)
(* C26.  At startup a missing config.toml and one that does not parse both *)
(* leave the session with the all-defaults configuration in use and with   *)
(* the defaults written to the file.                                       *)
(***************************************************************************)
FoundUnusable(file) == file.kind = "missing" \/ ~config_ok(file.doc)

C26_DefaultsWrittenBack ==
    FoundUnusable(config.found) =>
        /\ config.used = Config_default
        /\ app.state.name = DefaultName
        /\ app.llm.provider = "OpenAI"
        /\ config.file = FileOf(ConfigDocument(Config_default))

\* The part of C26 that holds: the defaults are in use in both cases, and a
\* missing file is created with the defaults in it.
C26_DefaultsUsed ==
    FoundUnusable(config.found) =>
        /\ config.used = Config_default
        /\ app.state.name = DefaultName
        /\ app.llm.provider = "OpenAI"
        /\ config.found = NoFile => config.file = FileOf(ConfigDocument(Config_default))
        /\ config.found # NoFile => config.file = config.found

(***************************************************************************)
(* C27.  The PetState in use after startup, before any tick or turn, has a *)
(* mood within [0.1, 1.0] whatever mood the stored record held, and is the *)
(* default (mood 0.8, empty chat_history) when the record is missing or    *)
(* does not parse.                                                         *)
(***************************************************************************)
C27_StartupMoodInRange ==
    pc = "start" =>
        /\ app.state.mood >= F32_0_1
        /\ app.state.mood <= F32_1_0
        /\ ~record_ok(disk) =>
              /\ app.state.mood = F32_0_8
              /\ app.state.chat_history = << >>

\* The part of C27 that holds: a missing or unparseable record gives the
\* default state under the configured name, and a record that parses is taken
\* as it is.
C27_StartupState ==
    pc = "start" =>
        /\ app.state.name = config.used.pet_name
        /\ ~record_ok(disk) =>
              /\ app.state.mood = F32_0_8
              /\ app.state.chat_history = << >>
        /\ record_ok(disk) => Stored(app.state).mood = disk.mood

(***************************************************************************)
(* C28.  The prompt of the Ollama backend holds exactly min(3, n) of the n *)
(* exchanges of its context, the most recently added, oldest first among   *)
(* themselves; then the recent commands, when there are any; and its last  *)
(* line is the current user input.                                         *)
(***************************************************************************)
ExchangeText(exchange) ==
    OllamaUser \o exchange[1] \o OllamaAssistant \o exchange[2] \o OllamaSep

RECURSIVE Concat(_)
Concat(texts) == IF texts = << >> THEN << >> ELSE Head(texts) \o Concat(Tail(texts))

Reverse(seq) == [i \in 1..Len(seq) |-> seq[Len(seq) + 1 - i]]

PromptOf(exchanges, commands, user_input) ==
    Concat([i \in 1..Len(exchanges) |-> ExchangeText(exchanges[i])])
    \o (IF commands # << >>
        THEN OllamaCommands \o join(commands, << "\n" >>) \o OllamaSep
        ELSE << >>)
    \o OllamaCurrent \o user_input

C28_PromptOldestFirst ==
    (pc = "await" /\ app.llm.provider = "Ollama") =>
        pending.prompt =
            PromptOf(LastN(PROMPT_EXCHANGES, app.llm.conversation_history),
                     app.recent_commands, pending.user_message)

\* The part of C28 that holds: the same prompt, with the exchanges taken the
\* most recent first.
C28_PromptNewestFirst ==
    (pc = "await" /\ app.llm.provider = "Ollama") =>
        pending.prompt =
            PromptOf(Reverse(LastN(PROMPT_EXCHANGES, app.llm.conversation_history)),
                     app.recent_commands, pending.user_message)

(***************************************************************************)
(* C29.  The context of the backend is written only by a chat turn whose   *)
(* generation succeeded, which appends the exchange to it (dropping the    *)
(* oldest past five); "/purge", "/clear", a turn answered by the fallback, *)
(* ticks and every other step leave it as it was, so after "/purge"        *)
(* chat_history is empty while the context still holds what it held.       *)
(***************************************************************************)
C29_ContextWrittenBySuccess ==
    [][/\ app'.llm # app.llm =>
             \E wire \in session.wires :
                /\ generate_response(wire).ok
                /\ \E save_ok \in BOOLEAN : Resolve(wire, save_ok)
                /\ app'.llm.conversation_history =
                      LastN(CONTEXT_LIMIT,
                            Append(app.llm.conversation_history,
                                   << pending.user_message,
                                      generate_response(wire).text >>))
       /\ CommandStep(CmdPurge) =>
             /\ app'.state.chat_history = << >>
             /\ app'.llm = app.llm
       /\ CommandStep(CmdClear) => app'.llm = app.llm
       /\ (\E wire \in session.wires :
              /\ ~generate_response(wire).ok
              /\ \E save_ok \in BOOLEAN : Resolve(wire, save_ok)) => app'.llm = app.llm
       /\ (Timeout \/ TickDue) => app'.llm = app.llm]_vars

\* "/purge" handled after an answered turn: chat_history is empty, and the
\* context still holds the exchange of that turn.
C29_Witness ==
    /\ pc = "tick"
    /\ enters = 2
    /\ app.ui.messages = << PurgedText >>
    /\ app.state.chat_history = << >>
    /\ app.llm.conversation_history = << << Hi, Purr >> >>

(***************************************************************************)
(* C30.  Right after any append to the scrollback (the echo of a line, a   *)
(* reply, an append that evicts the oldest message, the notice of "/clear" *)
(* or "/purge", the lines of the stored history at startup) the cursor     *)
(* equals the total line count of the buffer as it then stands, wherever   *)
(* it stood before.                                                        *)
(***************************************************************************)
C30_AppendScrollsToBottom ==
    [][/\ (pc = "start" /\ Len(app.ui.messages) > 1) =>
             app.ui.scroll_offset = total_lines(app.ui.messages)
       /\ app'.ui.messages # app.ui.messages =>
             app'.ui.scroll_offset = total_lines(app'.ui.messages)]_vars

\* The echo of a line was appended to a full buffer: the oldest message went,
\* the buffer holds 100, and the cursor is at the total of its lines.
C30_Witness ==
    /\ pc = "await"
    /\ Len(app.ui.messages) = MAX_MESSAGES
    /\ Last(app.ui.messages) = YouSay(Hi)
    /\ app.ui.messages[1] = Says(app.state.name, NumberedReply(LoadedExchanges - 49))
    /\ app.ui.scroll_offset = total_lines(app.ui.messages)
    /\ app.ui.scroll_offset > MAX_MESSAGES

(***************************************************************************)
(* C31.  A redraw of the frame does not change the scroll cursor: where    *)
(* scroll_up or scroll_down (or an append) left it, it still is after the  *)
(* frame is drawn, by the first draw, by a pass that timed out, or by the  *)
(* pass that follows a key.                                                *)
(***************************************************************************)
RedrawStep == FirstDraw \/ Timeout \/ TickDue \/ TickNotDue

C31_RedrawKeepsCursor ==
    [][RedrawStep => app'.ui.scroll_offset = app.ui.scroll_offset]_vars

\* What holds instead: after every frame the cursor is the count of the lines
\* laid out (the input line among them) less the rows of the chat area inside
\* its borders, or 0 when they all fit, wherever a key had put it.
C31_RedrawSetsCursor ==
    [][RedrawStep =>
          app'.ui.scroll_offset =
             IF rendered_lines(app.ui.messages) + 1 > chat_height - 2
             THEN rendered_lines(app.ui.messages) + 1 - (chat_height - 2)
             ELSE 0]_vars

(***************************************************************************)
(* C32.  Decay counts whole elapsed hours only: a tick less than a full    *)
(* hour after last_interaction leaves the mood as it was, a tick later     *)
(* than that takes 0.1 for each whole hour (within the clamp), and no tick *)
(* changes last_interaction, chat_history or name.                        *)
(***************************************************************************)
WholeHours == (now - app.state.last_interaction) \div StepsPerHour

C32_WholeHoursOnly ==
    [][(Timeout \/ TickDue) =>
          /\ now - app.state.last_interaction < StepsPerHour =>
                app'.state.mood = app.state.mood
          /\ app'.state.mood =
                F32Min(F32Max(F32Sub(app.state.mood, F32MulInt(WholeHours, F32_0_1)),
                              F32_0_1),
                       F32_1_0)
          /\ app'.state.last_interaction = app.state.last_interaction
          /\ app'.state.chat_history = app.state.chat_history
          /\ app'.state.name = app.state.name]_vars

\* Half an hour after the stored interaction and after a "/purge" the loop has
\* run its tick and polls again: the mood is the stored 0.5.
C32_Witness ==
    /\ pc = "poll"
    /\ enters = 1
    /\ now > 0
    /\ now - app.state.last_interaction < StepsPerHour
    /\ app.state.last_interaction = 0
    /\ app.ui.messages = << PurgedText >>
    /\ app.state.mood = F32_1_0 \div 2

(***************************************************************************)
(* C33.  In the engine of app.rs and terminal.rs, handling "/exit" stops   *)
(* the event loop: after the farewell and the save (which succeeds) the   *)
(* loop is over, and once it is over no Enter, key event or tick is        *)
(* processed.                                                              *)
(***************************************************************************)
LoopOver == pc \in {"exit0", "esc", "error"}

C33_AppExitStopsLoop ==
    [][/\ LoopOver => UNCHANGED vars
       /\ (/\ variant = "app"
           /\ LineStep
           /\ trim(app.ui.input) = CmdExit
           /\ save_result' = "ok") => LoopOver']_vars

\* What holds instead: the farewell is appended and the save attempted, the
\* PetState is as it was, and whether the save succeeded or failed the loop
\* goes on to its tick with "/exit" still on the input line.
C33_AppExitGoesOn ==
    [][(variant = "app" /\ LineStep /\ trim(app.ui.input) = CmdExit) =>
          /\ Last(app'.ui.messages) = Says(app.state.name, GoodbyeText)
          /\ app'.state = app.state
          /\ app'.ui.input = app.ui.input
          /\ save_result' \in {"ok", "err"}
          /\ save_result' = "ok" => disk' = Stored(app'.state)
          /\ save_result' = "err" => disk' = disk
          /\ pc' = "tick"]_vars

=============================================================================
